---- MODULE Spec2Model ----
(***************************************************************************)
(* A model of the 2fa-ts one-time-password library: the HOTP engine        *)
(* (src/hotp.ts) with its counter encoding, HMAC dispatch, dynamic         *)
(* truncation, windowed validation and the mutable counter of an instance. *)
(*                                                                         *)
(* Strings are sequences of one-character strings, byte arrays are         *)
(* sequences of 0..255, an optional argument is <<>> (undefined) or <<v>>, *)
(* and a nullable result is <<>> (null) or <<v>>.  The hash primitive is   *)
(* supplied by the host platform (Web Crypto / node:crypto): its output    *)
(* for each message is chosen once, in the initial state, and is the same  *)
(* every time that message is hashed.                                      *)
(***************************************************************************)
EXTENDS Integers, Sequences, FiniteSets, TLC

VARIABLES
  digestOf,   \* the platform's keyed digest: message bytes -> digest seed
  hotp,       \* the fields of one HOTP instance
  pc,         \* per caller: "idle" or "awaitHash" (suspended in hmacDigest)
  pend,       \* per caller: the generate call that is suspended
  genLog,     \* the instance generate() calls made without a counter, in call order
  overlap,    \* TRUE once a generate() call started while another was suspended
  secretObj,  \* the Secret object of the instance: its bytes and cached views
  last,       \* the operation completed last and what it returned
  arg         \* the arguments of the behaviour: of the function under test, or
              \* of the instance's construction

vars == <<digestOf, hotp, pc, pend, genLog, overlap, secretObj, last, arg>>

\* the instance, its callers and its secret
instVars == <<hotp, pc, pend, genLog, overlap, secretObj>>

-----------------------------------------------------------------------------
(* Bounds of the model *)

MaxWindow == 1        \* validation windows 0..MaxWindow
MaxCounter == 2       \* reference counters 0..MaxCounter
MaxCalls == 2         \* instance generate() calls per behaviour
MaxDigits == 10       \* token lengths 1..MaxDigits in the generate check

-----------------------------------------------------------------------------
(* Small helpers for options and sequences *)

Undefined == <<>>
Null == <<>>
Some(v) == <<v>>

\* a destructuring default: `x = d` takes d exactly when x is undefined
DefaultTo(opt, d) == IF opt = Undefined THEN d ELSE opt[1]

RECURSIVE Repeat(_, _)
Repeat(ch, n) == IF n <= 0 THEN <<>> ELSE <<ch>> \o Repeat(ch, n - 1)

-----------------------------------------------------------------------------
(* Characters *)

DigitChars == <<"0", "1", "2", "3", "4", "5", "6", "7", "8", "9">>

IsDigitChar(ch) == \E k \in 1..10 : DigitChars[k] = ch

\* String.prototype.charCodeAt for the characters the model uses
charCodeAt(ch) ==
  CASE ch = "0" -> 48 [] ch = "1" -> 49 [] ch = "2" -> 50 [] ch = "3" -> 51
    [] ch = "4" -> 52 [] ch = "5" -> 53 [] ch = "6" -> 54 [] ch = "7" -> 55
    [] ch = "8" -> 56 [] ch = "9" -> 57 [] ch = "x" -> 120 [] ch = " " -> 32

RECURSIVE BitXor(_, _)
BitXor(a, b) ==
  IF a = 0 THEN b
  ELSE IF b = 0 THEN a
  ELSE ((((a % 2) + (b % 2)) % 2)) + (2 * BitXor(a \div 2, b \div 2))

\* a ^ b for the character codes of the model, computed once
CharCodes == {32, 120} \cup (48..57)
XorOfCodes == [a \in CharCodes, b \in CharCodes |-> BitXor(a, b)]

RECURSIVE BitOr(_, _)
BitOr(a, b) ==
  IF a = 0 THEN b
  ELSE IF b = 0 THEN a
  ELSE (IF (a % 2) = 1 \/ (b % 2) = 1 THEN 1 ELSE 0) + (2 * BitOr(a \div 2, b \div 2))

-----------------------------------------------------------------------------
(* uintDecode: the counter as the 8 bytes handed to the HMAC *)

\* one pass of the loop body for index i (7 down to 0) on accumulator acc;
\* `acc & 255` on an integer is its low byte in two's complement, and after
\* `acc -= arr[i]` the division by 256 is exact
RECURSIVE uintDecodeLoop(_, _, _)
uintDecodeLoop(arr, acc, i) ==
  IF i < 0 \/ acc = 0 THEN arr
  ELSE LET b == acc % 256
       IN uintDecodeLoop([arr EXCEPT ![i + 1] = b], (acc - b) \div 256, i - 1)

uintDecode(num) == uintDecodeLoop(<<0, 0, 0, 0, 0, 0, 0, 0>>, num, 7)

-----------------------------------------------------------------------------
(* hmacDigest: algorithm dispatch, and the platform's digest *)

toLowerCase(name) ==
  CASE name \in {"SHA1", "sha1", "Sha1"} -> "sha1"
    [] name \in {"SHA256", "sha256"} -> "sha256"
    [] name \in {"SHA512", "sha512"} -> "sha512"
    [] name \in {"SHA224", "sha224"} -> "sha224"
    [] name \in {"SHA3-256", "sha3-256"} -> "sha3-256"
    [] name \in {"MD5", "md5"} -> "md5"
    [] name \in {"SHA384", "sha384"} -> "sha384"
    [] name \in {"SHA3-224", "sha3-224"} -> "sha3-224"
    [] name \in {"SHA3-384", "sha3-384"} -> "sha3-384"
    [] name \in {"SHA3-512", "sha3-512"} -> "sha3-512"
    [] name \in {"SHA-1", "sha-1"} -> "sha-1"

toUpperCase(name) ==
  CASE name \in {"SHA1", "sha1", "Sha1"} -> "SHA1"
    [] name \in {"SHA256", "sha256"} -> "SHA256"
    [] name \in {"SHA512", "sha512"} -> "SHA512"
    [] name \in {"SHA224", "sha224"} -> "SHA224"
    [] name \in {"SHA3-256", "sha3-256"} -> "SHA3-256"
    [] name \in {"MD5", "md5"} -> "MD5"
    [] name \in {"SHA384", "sha384"} -> "SHA384"
    [] name \in {"SHA3-224", "sha3-224"} -> "SHA3-224"
    [] name \in {"SHA3-384", "sha3-384"} -> "SHA3-384"
    [] name \in {"SHA3-512", "sha3-512"} -> "SHA3-512"
    [] name \in {"SHA-1", "sha-1"} -> "SHA-1"

\* getHashFunction: the digest length of the selected hash, 0 when the switch
\* falls to its default branch and throws
getHashFunction(algorithm) ==
  LET a == toLowerCase(algorithm)
  IN CASE a = "sha1" -> 20
       [] a = "sha256" -> 32
       [] a = "sha512" -> 64
       [] OTHER -> 0

\* A digest seed fixes the bytes the truncation can read: the low nibble of
\* the last byte (off), the four bytes at that offset (quad) and the last
\* byte's high nibble (hi); every other byte is 170.
MkDigest(len, seed) ==
  [i \in 1..len |->
     IF i = len THEN (16 * seed.hi) + seed.off
     ELSE IF i - 1 >= seed.off /\ i - 1 <= seed.off + 3 THEN seed.quad[i - seed.off]
     ELSE 170]

\* hmacDigest(algorithm, key, message): throws for an algorithm the switch
\* does not know, else the platform's digest of the message under the
\* behaviour's key, of the selected hash's length
hmacDigest(algorithm, key, message) ==
  LET len == getHashFunction(algorithm)
  IN IF len = 0
     THEN [err |-> "UnsupportedAlgorithm", digest |-> <<>>]
     ELSE [err |-> "none", digest |-> MkDigest(len, digestOf[message])]

-----------------------------------------------------------------------------
(* HOTP.generate: dynamic truncation and decimal rendering *)

RECURSIVE Pow10(_)
Pow10(n) == IF n = 0 THEN 1 ELSE 10 * Pow10(n - 1)

\* (mutant) the modulus dropped
ModPow10_noModulo(v, digits) == v

\* v % 10 ** digits for 0 <= v < 2^31: from ten digits on the modulus
\* exceeds every v
ModPow10(v, digits) == IF digits > 9 THEN v ELSE v % Pow10(digits)

\* Number.prototype.toString of a non-negative integer
RECURSIVE toString(_)
toString(n) ==
  IF n < 10 THEN <<DigitChars[n + 1]>>
  ELSE toString(n \div 10) \o <<DigitChars[(n % 10) + 1]>>

\* (mutant) no padding
padStart_noPad(str, targetLength) == str

\* String.prototype.padStart(targetLength, "0")
padStart(str, targetLength) ==
  IF Len(str) >= targetLength THEN str
  ELSE Repeat("0", targetLength - Len(str)) \o str

\* offset = digest[byteLength - 1] & 15 and the 31-bit value read there; the
\* four operands of the bitwise or occupy disjoint bits, so the or is a sum
Truncate(digest) ==
  LET offset == digest[Len(digest)] % 16
  IN ((digest[offset + 1] % 128) * 16777216) + ((digest[offset + 2] % 256) * 65536)
       + ((digest[offset + 3] % 256) * 256) + (digest[offset + 4] % 256)

\* (mutant) the default window is 0
HOTP_defaults_noWindow ==
  [issuer |-> <<>>, label |-> <<"O", "T", "P", "A", "u", "t", "h">>,
   issuerInLabel |-> TRUE,
   algorithm |-> "SHA1", digits |-> 6, counter |-> 0, window |-> 0]

\* HOTP.defaults
HOTP_defaults ==
  [issuer |-> <<>>, label |-> <<"O", "T", "P", "A", "u", "t", "h">>,
   issuerInLabel |-> TRUE,
   algorithm |-> "SHA1", digits |-> 6, counter |-> 0, window |-> 1]

\* static HOTP.generate({secret, algorithm, digits, counter}); algorithm,
\* digits and counter are optional
HOTP_generate(secret, algorithm, digits, counter) ==
  LET alg == DefaultTo(algorithm, HOTP_defaults.algorithm)
      dig == DefaultTo(digits, HOTP_defaults.digits)
      ctr == DefaultTo(counter, HOTP_defaults.counter)
      h == hmacDigest(alg, secret, uintDecode(ctr))
  IN IF h.err # "none"
     THEN [err |-> h.err, token |-> <<>>]
     ELSE [err |-> "none",
           token |-> padStart(toString(ModPow10(Truncate(h.digest), dig)), dig)]

-----------------------------------------------------------------------------
(* timingSafeEqual and HOTP.validate *)

\* the loop `out |= a.charCodeAt(i) ^ b.charCodeAt(i)` from index i on
RECURSIVE timingSafeEqualLoop(_, _, _, _)
timingSafeEqualLoop(a, b, i, out) ==
  IF i > Len(a) THEN out
  ELSE timingSafeEqualLoop(a, b, i + 1,
                           BitOr(out, XorOfCodes[charCodeAt(a[i]), charCodeAt(b[i])]))

\* (mutant) the comparison stops at the first character that differs
timingSafeEqual_earlyExit(a, b) ==
  IF Len(a) # Len(b)
  THEN [err |-> "TypeError", value |-> FALSE, inspected |-> 0]
  ELSE IF a = b THEN [err |-> "none", value |-> TRUE, inspected |-> Len(a)]
  ELSE [err |-> "none", value |-> FALSE,
        inspected |-> CHOOSE k \in 1..Len(a) :
                        a[k] # b[k] /\ \A j \in 1..(k - 1) : a[j] = b[j]]

\* timingSafeEqual(a, b): throws TypeError on strings of different length,
\* else whether the or of all character differences is 0; `inspected` counts
\* the character positions the loop visited
timingSafeEqual(a, b) ==
  IF Len(a) # Len(b)
  THEN [err |-> "TypeError", value |-> FALSE, inspected |-> 0]
  ELSE [err |-> "none", value |-> (timingSafeEqualLoop(a, b, 1, 0) = 0),
        inspected |-> Len(a)]

\* what a validate call has done so far: the error it threw (if any), the
\* recorded delta, the counters passed to HOTP.generate in order, and the
\* number of comparisons and of compared character positions
ValidateStart ==
  [err |-> "none", delta |-> Null, candidates |-> <<>>, compares |-> 0, inspected |-> 0]

\* (mutant) the scan starts one counter early
ScanFirst_early(counter, window) == counter - window - 1

\* the first and the last counter of `for (let i = counter - window;
\* i <= counter + window; ++i)`
ScanFirst(counter, window) == counter - window

\* (mutant) the scan stops one counter early: `i < counter + window`
ScanLast_short(counter, window) == counter + window - 1

ScanLast(counter, window) == counter + window

\* (mutant) an earlier match is kept: the first match wins
RecordMatch_first(st, i, counter) ==
  IF st.delta = Null THEN [st EXCEPT !.delta = Some(i - counter)] ELSE st

\* `delta = i - counter` on a match
RecordMatch(st, i, counter) == [st EXCEPT !.delta = Some(i - counter)]

\* the body of the loop from index i on; a throw of generate or of
\* timingSafeEqual ends the call
RECURSIVE validateLoop(_, _, _, _, _, _, _, _)
validateLoop(token, secret, algorithm, digits, counter, window, i, st) ==
  IF i > ScanLast(counter, window) THEN st
  ELSE LET g == HOTP_generate(secret, algorithm, Some(digits), Some(i))
           called == [st EXCEPT !.candidates = Append(@, i)]
       IN IF g.err # "none" THEN [called EXCEPT !.err = g.err, !.delta = Null]
          ELSE LET eq == timingSafeEqual(token, g.token)
                   compared == [called EXCEPT !.compares = @ + 1,
                                              !.inspected = @ + eq.inspected]
               IN IF eq.err # "none"
                  THEN [compared EXCEPT !.err = eq.err, !.delta = Null]
                  ELSE validateLoop(token, secret, algorithm, digits, counter, window, i + 1,
                                    IF eq.value
                                    THEN RecordMatch(compared, i, counter)
                                    ELSE compared)

\* (mutant) the length check dropped
HOTP_validate_noLengthCheck(token, secret, algorithm, digits, counter, window) ==
  LET dig == DefaultTo(digits, HOTP_defaults.digits)
      ctr == DefaultTo(counter, HOTP_defaults.counter)
      win == DefaultTo(window, HOTP_defaults.window)
  IN validateLoop(token, secret, algorithm, dig, ctr, win, ScanFirst(ctr, win),
                  ValidateStart)

\* static HOTP.validate({token, secret, algorithm, digits, counter, window});
\* algorithm, digits, counter and window are optional
HOTP_validate(token, secret, algorithm, digits, counter, window) ==
  LET dig == DefaultTo(digits, HOTP_defaults.digits)
      ctr == DefaultTo(counter, HOTP_defaults.counter)
      win == DefaultTo(window, HOTP_defaults.window)
  IN IF Len(token) # dig THEN ValidateStart
     ELSE validateLoop(token, secret, algorithm, dig, ctr, win, ScanFirst(ctr, win),
                       ValidateStart)

-----------------------------------------------------------------------------
(* The HOTP instance and the TOTP wrapper, as far as validation goes *)

\* new HOTP({issuer, label, issuerInLabel, secret, algorithm, digits, counter});
\* every option but the secret may be undefined
HOTP_constructor(issuer, label, issuerInLabel, secret, algorithm, digits, counter) ==
  [issuer |-> DefaultTo(issuer, HOTP_defaults.issuer),
   label |-> DefaultTo(label, HOTP_defaults.label),
   issuerInLabel |-> DefaultTo(issuerInLabel, HOTP_defaults.issuerInLabel),
   secret |-> secret,
   algorithm |-> toUpperCase(DefaultTo(algorithm, HOTP_defaults.algorithm)),
   digits |-> DefaultTo(digits, HOTP_defaults.digits),
   counter |-> DefaultTo(counter, HOTP_defaults.counter)]

\* hotp.validate({token, counter, window}) on the instance `self`
HOTP_prototype_validate(self, token, counter, window) ==
  HOTP_validate(token, self.secret, Some(self.algorithm), Some(self.digits),
                Some(DefaultTo(counter, self.counter)), window)

TOTP_defaults ==
  [issuer |-> <<>>, label |-> <<"O", "T", "P", "A", "u", "t", "h">>,
   issuerInLabel |-> TRUE,
   algorithm |-> "SHA1", digits |-> 6, period |-> 30, window |-> 1]

\* (mutant) the step rounded to the nearest instead of down
TOTP_counter_round(period, timestamp) ==
  (timestamp + (500 * DefaultTo(period, TOTP_defaults.period)))
    \div (1000 * DefaultTo(period, TOTP_defaults.period))

\* TOTP.counter({period, timestamp}) = Math.floor(timestamp / 1000 / period),
\* for integer arguments
TOTP_counter(period, timestamp) ==
  timestamp \div (1000 * DefaultTo(period, TOTP_defaults.period))

\* static TOTP.validate({token, secret, algorithm, digits, period, timestamp, window})
TOTP_validate(token, secret, algorithm, digits, period, timestamp, window) ==
  HOTP_validate(token, secret, algorithm, digits,
                Some(TOTP_counter(Some(DefaultTo(period, TOTP_defaults.period)), timestamp)),
                window)

-----------------------------------------------------------------------------
(* Secret: base32 view; and the key URI of an HOTP instance *)

ALPHABET ==
  <<"A", "B", "C", "D", "E", "F", "G", "H", "I", "J", "K", "L", "M", "N", "O", "P",
    "Q", "R", "S", "T", "U", "V", "W", "X", "Y", "Z", "2", "3", "4", "5", "6", "7">>

RECURSIVE Pow2(_)
Pow2(n) == IF n = 0 THEN 1 ELSE 2 * Pow2(n - 1)

\* the `while (bits >= 5)` loop of base32Encode on the state
\* [bits, value, str]
RECURSIVE base32EncodeDrain(_)
base32EncodeDrain(st) ==
  IF st.bits < 5 THEN st
  ELSE base32EncodeDrain(
         [bits |-> st.bits - 5, value |-> st.value,
          str |-> Append(st.str, ALPHABET[((st.value \div Pow2(st.bits - 5)) % 32) + 1])])

\* the `for` loop of base32Encode from byte i on.  The code keeps `value` as
\* a 32-bit integer; only its low `bits` (< 13) bits are ever read, so the
\* accumulator is kept modulo 2^16 here.
RECURSIVE base32EncodeLoop(_, _, _)
base32EncodeLoop(arr, i, st) ==
  IF i > Len(arr) THEN st
  ELSE base32EncodeLoop(arr, i + 1,
         base32EncodeDrain([bits |-> st.bits + 8,
                            value |-> ((st.value * 256) + arr[i]) % 65536,
                            str |-> st.str]))

\* (mutant) the trailing partial symbol is not emitted
base32Encode_dropPartial(arr) ==
  base32EncodeLoop(arr, 1, [bits |-> 0, value |-> 0, str |-> <<>>]).str

base32Encode(arr) ==
  LET st == base32EncodeLoop(arr, 1, [bits |-> 0, value |-> 0, str |-> <<>>])
  IN IF st.bits > 0
     THEN Append(st.str, ALPHABET[((st.value * Pow2(5 - st.bits)) % 32) + 1])
     ELSE st.str

\* characters that encodeURIComponent and URLSearchParams leave as they are
IsAlphaNum(ch) ==
  \/ IsDigitChar(ch)
  \/ \E k \in 1..26 : ALPHABET[k] = ch
  \/ ch \in {"a", "b", "c", "d", "e", "f", "g", "h", "i", "j", "k", "l", "m", "n",
             "o", "p", "q", "r", "s", "t", "u", "v", "w", "x", "y", "z"}

\* %XX of the other characters the model uses
PercentCode(ch) ==
  CASE ch = " " -> <<"%", "2", "0">>
    [] ch = ":" -> <<"%", "3", "A">>
    [] ch = "@" -> <<"%", "4", "0">>
    [] ch = "=" -> <<"%", "3", "D">>
    [] ch = "&" -> <<"%", "2", "6">>
    [] ch = "?" -> <<"%", "3", "F">>
    [] ch = "/" -> <<"%", "2", "F">>
    [] ch = "+" -> <<"%", "2", "B">>
    [] ch = "%" -> <<"%", "2", "5">>

RECURSIVE encodeURIComponent(_)
encodeURIComponent(str) ==
  IF str = <<>> THEN <<>>
  ELSE (IF IsAlphaNum(str[1]) \/ str[1] \in {"-", "_", ".", "!", "~", "*", "'", "(", ")"}
        THEN <<str[1]>> ELSE PercentCode(str[1]))
       \o encodeURIComponent(Tail(str))

\* the application/x-www-form-urlencoded serializer of URLSearchParams
RECURSIVE formEncode(_)
formEncode(str) ==
  IF str = <<>> THEN <<>>
  ELSE (IF IsAlphaNum(str[1]) \/ str[1] \in {"*", "-", ".", "_"} THEN <<str[1]>>
        ELSE IF str[1] = " " THEN <<"+">>
        ELSE PercentCode(str[1]))
       \o formEncode(Tail(str))

\* URLSearchParams.prototype.toString of a list of <<key, value>> pairs
RECURSIVE URLSearchParams_toString(_)
URLSearchParams_toString(params) ==
  IF params = <<>> THEN <<>>
  ELSE formEncode(params[1][1]) \o <<"=">> \o formEncode(params[1][2])
       \o (IF Len(params) > 1 THEN <<"&">> ELSE <<>>)
       \o URLSearchParams_toString(Tail(params))

\* String(n) of an integer
String(n) == IF n < 0 THEN <<"-">> \o toString(0 - n) ELSE toString(n)

Chars(name) ==
  CASE name = "SHA1" -> <<"S", "H", "A", "1">>
    [] name = "SHA256" -> <<"S", "H", "A", "2", "5", "6">>
    [] name = "SHA512" -> <<"S", "H", "A", "5", "1", "2">>
    [] name = "SHA224" -> <<"S", "H", "A", "2", "2", "4">>
    [] name = "SHA3-256" -> <<"S", "H", "A", "3", "-", "2", "5", "6">>
    [] name = "MD5" -> <<"M", "D", "5">>
    [] name = "sha1" -> <<"s", "h", "a", "1">>
    [] name = "SHA-1" -> <<"S", "H", "A", "-", "1">>
    [] name = "SHA384" -> <<"S", "H", "A", "3", "8", "4">>
    [] name = "SHA3-224" -> <<"S", "H", "A", "3", "-", "2", "2", "4">>
    [] name = "SHA3-384" -> <<"S", "H", "A", "3", "-", "3", "8", "4">>
    [] name = "SHA3-512" -> <<"S", "H", "A", "3", "-", "5", "1", "2">>
    [] name = "period" -> <<"p", "e", "r", "i", "o", "d">>
    [] name = "otpauth://totp/" ->
         <<"o", "t", "p", "a", "u", "t", "h", ":", "/", "/", "t", "o", "t", "p", "/">>
    [] name = "secret" -> <<"s", "e", "c", "r", "e", "t">>
    [] name = "algorithm" -> <<"a", "l", "g", "o", "r", "i", "t", "h", "m">>
    [] name = "digits" -> <<"d", "i", "g", "i", "t", "s">>
    [] name = "counter" -> <<"c", "o", "u", "n", "t", "e", "r">>
    [] name = "issuer" -> <<"i", "s", "s", "u", "e", "r">>
    [] name = "otpauth://hotp/" ->
         <<"o", "t", "p", "a", "u", "t", "h", ":", "/", "/", "h", "o", "t", "p", "/">>

\* hotp.toString() on the instance `self`, reading the secret's base32 view
HOTP_prototype_toString(self, base32) ==
  LET label == IF Len(self.issuer) > 0 /\ self.issuerInLabel
               THEN encodeURIComponent(self.issuer) \o <<":">>
                    \o encodeURIComponent(self.label)
               ELSE encodeURIComponent(self.label)
      params == << <<Chars("secret"), base32>>,
                   <<Chars("algorithm"), Chars(self.algorithm)>>,
                   <<Chars("digits"), String(self.digits)>>,
                   <<Chars("counter"), String(self.counter)>> >>
                \o (IF Len(self.issuer) > 0
                    THEN << <<Chars("issuer"), self.issuer>> >> ELSE <<>>)
  IN Chars("otpauth://hotp/") \o label \o <<"?">> \o URLSearchParams_toString(params)

-----------------------------------------------------------------------------
(* Inputs *)

\* the bytes of the shared secret: "Hello"
SecretBytes == <<72, 101, 108, 108, 111>>

Quad(seed) ==
  ((seed.quad[1] % 128) * 16777216) + (seed.quad[2] * 65536)
    + (seed.quad[3] * 256) + seed.quad[4]

\* digests whose truncated values are 1000042 and 2147483647
SeedA == [off |-> 3, hi |-> 5, quad |-> <<0, 15, 66, 106>>]
SeedB == [off |-> 15, hi |-> 0, quad |-> <<255, 255, 255, 255>>]
TwoSeeds == {SeedA, SeedB}

\* digests for the generate check: offsets at both ends and in the middle,
\* values 0, 2^31 - 1, 10^6, 10^9, 7 (under a set top bit) and 12345
GenSeeds ==
  [off : {0, 9, 15}, hi : {0, 11},
   quad : {<<0, 0, 0, 0>>, <<255, 255, 255, 255>>, <<0, 15, 66, 64>>,
           <<59, 154, 202, 0>>, <<128, 0, 0, 7>>, <<0, 0, 48, 57>>}]

GenCounters == {0 - 1, 0, 1, 300}
SupportedAlgorithms == {"SHA1", "SHA256", "SHA512"}

\* new Secret({buffer}): the bytes, and no view computed yet
Secret_constructor(buffer) == [bytes |-> buffer, base32 |-> Undefined, hex |-> Undefined]

\* (mutant) the getter returns the view without pinning it
Secret_base32_noPin(self) ==
  [self |-> self, value |-> base32Encode(self.bytes), computed |-> TRUE]

\* the getter `base32`: the first read computes the view and pins it as an
\* own property, later reads find that property
Secret_base32(self) ==
  IF self.base32 # Undefined
  THEN [self |-> self, value |-> self.base32[1], computed |-> FALSE]
  ELSE LET value == base32Encode(self.bytes)
       IN [self |-> [self EXCEPT !.base32 = Some(value)], value |-> value,
           computed |-> TRUE]

NewSecret == Secret_constructor(SecretBytes)

NoOp == [op |-> "none"]
IdleHotp ==
  HOTP_constructor(Undefined, Undefined, Undefined, SecretBytes, Undefined,
                   Undefined, Undefined)

-----------------------------------------------------------------------------
(* HOTP.generate as a function of the digest, the digits and the counter *)

InitGenerate ==
  /\ arg \in [fn : {"HOTP.generate"}, algorithm : SupportedAlgorithms,
              digits : 1..MaxDigits, counter : GenCounters, seed : GenSeeds]
  /\ digestOf = [m \in {uintDecode(arg.counter)} |-> arg.seed]
  /\ hotp = IdleHotp
  /\ pc = <<>>
  /\ pend = <<>>
  /\ genLog = <<>>
  /\ overlap = FALSE
  /\ secretObj = NewSecret
  /\ last = NoOp

ApplyGenerate ==
  /\ arg.fn = "HOTP.generate"
  /\ last = NoOp
  /\ last' = [op |-> "HOTP.generate",
              out |-> HOTP_generate(SecretBytes, Some(arg.algorithm), Some(arg.digits),
                                    Some(arg.counter))]
  /\ UNCHANGED <<digestOf, instVars, arg>>

NextGenerate == ApplyGenerate

SpecGenerate == InitGenerate /\ [][NextGenerate]_vars

-----------------------------------------------------------------------------
(* HOTP.validate as a function of its arguments and of the digests *)

ValDigits == {1, 6}

\* the counters a validation scans, and one more on each side
ValCounters(counter, window) == (counter - window - 1)..(counter + window + 1)

\* tokens that no counter generated: empty, of the right length with a
\* character that is no digit, all nines, one short, one long
RawTokens(digits) ==
  {<<>>, Repeat("x", digits), Repeat("9", digits), Repeat("0", digits - 1),
   Repeat("0", digits + 1)}

\* the token under test: generated at counter c0 (`from` = <<c0>>) or a raw
\* string (`from` = <<>>)
TokenOf(a) ==
  IF a.from = <<>> THEN a.raw
  ELSE HOTP_generate(SecretBytes, a.algorithm, Some(a.digits), Some(a.from[1])).token

InitValidate ==
  /\ \E digits \in ValDigits, counter \in 0..MaxCounter, window \in 0..MaxWindow,
        algorithm \in {Undefined, Some("SHA512")} :
       \/ \E c0 \in ValCounters(counter, window) :
            arg = [fn |-> "validate", algorithm |-> algorithm, digits |-> digits,
                   counter |-> counter, window |-> window, from |-> Some(c0),
                   raw |-> <<>>]
       \/ \E raw \in RawTokens(digits) :
            arg = [fn |-> "validate", algorithm |-> algorithm, digits |-> digits,
                   counter |-> counter, window |-> window, from |-> <<>>,
                   raw |-> raw]
  /\ digestOf \in [{uintDecode(c) : c \in ValCounters(arg.counter, arg.window)} -> TwoSeeds]
  /\ hotp = HOTP_constructor(Undefined, Undefined, Undefined, SecretBytes,
                             arg.algorithm, Some(arg.digits), Some(arg.counter))
  /\ pc = <<>>
  /\ pend = <<>>
  /\ genLog = <<>>
  /\ overlap = FALSE
  /\ secretObj = NewSecret
  /\ last = NoOp

\* HOTP.validate({token, secret, algorithm, digits, counter, window})
ApplyStaticValidate ==
  /\ arg.fn = "validate"
  /\ last = NoOp
  /\ last' = [op |-> "HOTP.validate",
              out |-> HOTP_validate(TokenOf(arg), SecretBytes, arg.algorithm,
                                    Some(arg.digits), Some(arg.counter),
                                    Some(arg.window))]
  /\ UNCHANGED <<digestOf, instVars, arg>>

\* hotp.validate({token, window}) on an instance whose counter is the
\* reference counter
ApplyInstanceValidate ==
  /\ arg.fn = "validate"
  /\ last = NoOp
  /\ last' = [op |-> "hotp.validate",
              out |-> HOTP_prototype_validate(hotp, TokenOf(arg), Undefined,
                                              Some(arg.window))]
  /\ UNCHANGED <<digestOf, instVars, arg>>

\* TOTP.validate({token, secret, algorithm, digits, period, timestamp, window})
\* at a time inside step `counter` of the default period
ApplyTotpValidate ==
  /\ arg.fn = "validate"
  /\ last = NoOp
  /\ last' = [op |-> "TOTP.validate",
              out |-> TOTP_validate(TokenOf(arg), SecretBytes, arg.algorithm,
                                    Some(arg.digits), Undefined,
                                    (arg.counter * (1000 * TOTP_defaults.period)) + 29000,
                                    Some(arg.window))]
  /\ UNCHANGED <<digestOf, instVars, arg>>

NextValidate == ApplyStaticValidate \/ ApplyInstanceValidate \/ ApplyTotpValidate

SpecValidate == InitValidate /\ [][NextValidate]_vars

-----------------------------------------------------------------------------
(* Properties of HOTP.generate (under SpecGenerate) *)

DigitValue(ch) == CHOOSE k \in 0..9 : DigitChars[k + 1] = ch

RECURSIVE DecimalValue(_)
DecimalValue(str) ==
  IF str = <<>> THEN 0
  ELSE (10 * DecimalValue(SubSeq(str, 1, Len(str) - 1))) + DigitValue(str[Len(str)])

\* C10: HOTP.generate returns a string of exactly `digits` characters, all
\* decimal digits, whose value is the truncated 31-bit value of the digest
\* modulo 10^digits (so it is that number left-padded with "0").
C10_GenerateShape ==
  last.op = "HOTP.generate" =>
    LET token == last.out.token
        v == Quad(arg.seed)
    IN /\ last.out.err = "none"
       /\ Len(token) = arg.digits
       /\ \A i \in 1..Len(token) : IsDigitChar(token[i])
       /\ DecimalValue(token) = IF arg.digits > 9 THEN v ELSE v % Pow10(arg.digits)

\* a token that needed padding: 1000000 rendered with eight digits
C10_Witness ==
  /\ last.op = "HOTP.generate"
  /\ arg.digits = 8
  /\ last.out.token = <<"0", "1", "0", "0", "0", "0", "0", "0">>

-----------------------------------------------------------------------------
(* Properties of HOTP.validate (under SpecValidate) *)

ValidateOps == {"HOTP.validate", "hotp.validate", "TOTP.validate"}

\* the token HOTP.generate returns for counter i with the arguments under test
Gen(i) == HOTP_generate(SecretBytes, arg.algorithm, Some(arg.digits), Some(i)).token

Window == (arg.counter - arg.window)..(arg.counter + arg.window)

Matches == {i \in Window : Gen(i) = TokenOf(arg)}

SetMax(S) == CHOOSE x \in S : \A y \in S : y <= x

Abs(x) == IF x < 0 THEN 0 - x ELSE x

\* C1 as stated: validating generate(counter = c) against counter c returns
\* delta 0 whatever the other counters of the window generate.
C1_Original ==
  (last.op = "HOTP.validate" /\ arg.from = Some(arg.counter)) =>
    last.out.delta = Some(0)

\* C1, amended: validating generate(counter = c) against counter c returns
\* a delta (never null) between 0 and the window, and that delta is 0 exactly
\* when no later counter of the window generates the same token.
C1_SelfValidate ==
  (last.op = "HOTP.validate" /\ arg.from = Some(arg.counter)) =>
    /\ last.out.err = "none"
    /\ last.out.delta # Null
    /\ last.out.delta[1] \in 0..arg.window
    /\ (last.out.delta = Some(0)) <=>
         (\A i \in (arg.counter + 1)..(arg.counter + arg.window) : Gen(i) # TokenOf(arg))

\* the token's own counter is accepted with delta 0 although the counter
\* before it generates the same token
C1_Witness ==
  /\ last.op = "HOTP.validate"
  /\ arg.from = Some(arg.counter)
  /\ arg.window = 1
  /\ Gen(arg.counter - 1) = TokenOf(arg)
  /\ last.out.delta = Some(0)

\* C2: for a token of length digits, HOTP.validate returns i_max - counter
\* for the largest counter i_max of the window that generates the token, and
\* null exactly when no counter of the window does.
C2_LastMatchWins ==
  (last.op = "HOTP.validate" /\ Len(TokenOf(arg)) = arg.digits) =>
    /\ last.out.err = "none"
    /\ IF Matches = {} THEN last.out.delta = Null
       ELSE last.out.delta = Some(SetMax(Matches) - arg.counter)

\* three counters of the window generate the token, and the last one wins
C2_Witness ==
  /\ last.op = "HOTP.validate"
  /\ arg.window = 1
  /\ Matches = Window
  /\ last.out.delta = Some(1)

\* C3 as stated: a token generated more than `window` counters away from the
\* reference counter is rejected.
C3_Original ==
  (/\ last.op = "HOTP.validate"
   /\ arg.from # <<>>
   /\ Abs(arg.from[1] - arg.counter) > arg.window) =>
    last.out.delta = Null

\* C3, amended: for a token generated at c0 more than `window` counters away
\* from the reference counter c1, HOTP.validate never returns c0 - c1, and it
\* returns null exactly when no counter of the window generates an equal
\* token.
C3_OutOfWindow ==
  (/\ last.op = "HOTP.validate"
   /\ arg.from # <<>>
   /\ Abs(arg.from[1] - arg.counter) > arg.window) =>
    /\ last.out.err = "none"
    /\ last.out.delta # Some(arg.from[1] - arg.counter)
    /\ (last.out.delta = Null) <=> (Matches = {})

\* a token of the counter just below the window, rejected
C3_Witness ==
  /\ last.op = "HOTP.validate"
  /\ arg.from = Some(arg.counter - arg.window - 1)
  /\ arg.window = 1
  /\ last.out.delta = Null

\* C4: with a token whose length is not `digits`, HOTP.validate, the
\* instance's validate and TOTP.validate return null without an error, after
\* no call of HOTP.generate (hence of the HMAC) and no comparison.
C4_LengthMismatch ==
  (last.op \in ValidateOps /\ Len(TokenOf(arg)) # arg.digits) =>
    /\ last.out.err = "none"
    /\ last.out.delta = Null
    /\ last.out.candidates = <<>>
    /\ last.out.compares = 0

\* TOTP.validate has returned null for a token one character too long
C4_Witness ==
  /\ last.op = "TOTP.validate"
  /\ Len(TokenOf(arg)) = arg.digits + 1
  /\ last.out.delta = Null

\* C5: for a token of any length and content, with a supported algorithm and
\* digits >= 1, validation ends without an error, and every candidate that
\* is compared with the token has exactly `digits` characters.
C5_NeverRaises ==
  last.op \in ValidateOps =>
    /\ last.out.err = "none"
    /\ \A k \in 1..Len(last.out.candidates) :
         Len(Gen(last.out.candidates[k])) = arg.digits

\* a token of the right length that holds no digit was compared with every
\* candidate of the window
C5_Witness ==
  /\ last.op = "HOTP.validate"
  /\ arg.digits = 6
  /\ TokenOf(arg) = Repeat("x", 6)
  /\ arg.window = 1
  /\ last.out.compares = 3
  /\ last.out.err = "none"

-----------------------------------------------------------------------------
(* One HOTP instance shared by two callers *)

Callers == {1, 2}

\* (mutant) the counter is incremented before it is used: `++this.counter`
HOTP_prototype_generate_preIncrement(self, counter) ==
  IF counter = Undefined
  THEN [self |-> [self EXCEPT !.counter = @ + 1], counter |-> self.counter + 1]
  ELSE [self |-> self, counter |-> counter[1]]

\* (mutant) the counter is read and never incremented
HOTP_prototype_generate_noIncrement(self, counter) ==
  IF counter = Undefined
  THEN [self |-> self, counter |-> self.counter]
  ELSE [self |-> self, counter |-> counter[1]]

\* (mutant) an explicit counter is stored in the instance
HOTP_prototype_generate_storeExplicit(self, counter) ==
  IF counter = Undefined
  THEN [self |-> [self EXCEPT !.counter = @ + 1], counter |-> self.counter]
  ELSE [self |-> [self EXCEPT !.counter = counter[1] + 1], counter |-> counter[1]]

\* hotp.generate({counter = this.counter++} = {}): the binding of the
\* parameter, which runs when the call is made.  It yields the counter the
\* call uses and the instance as the call leaves it.
HOTP_prototype_generate(self, counter) ==
  IF counter = Undefined
  THEN [self |-> [self EXCEPT !.counter = @ + 1], counter |-> self.counter]
  ELSE [self |-> self, counter |-> counter[1]]

NoCall == [counter |-> 0, explicit |-> FALSE, index |-> 0]

\* the counters whose digest an operation on the instance can ask for
InstCounters ==
  (0 - HOTP_defaults.window - 1)..(1 + MaxCalls + HOTP_defaults.window + 1)

\* the counter that uintDecode turns into message m
CounterOf(m) == CHOOSE c \in InstCounters : uintDecode(c) = m

\* The digests of the platform's hash repeat with period 3 over the counters:
\* any three consecutive counters can generate equal or different tokens in
\* every combination.
Init ==
  /\ arg \in [fn : {"instance"}, counter : {Undefined, Some(1)},
              digits : {Undefined, Some(1)}]
  /\ hotp = HOTP_constructor(Some(<<"A", " ", "b">>), Undefined, Undefined, SecretBytes,
                             Some("sha1"), arg.digits, arg.counter)
  /\ \E pattern \in [0..2 -> TwoSeeds] :
       digestOf = [m \in {uintDecode(c) : c \in InstCounters} |->
                     pattern[CounterOf(m) % 3]]
  /\ pc = [p \in Callers |-> "idle"]
  /\ pend = [p \in Callers |-> NoCall]
  /\ genLog = <<>>
  /\ overlap = FALSE
  /\ secretObj = NewSecret
  /\ last = NoOp

\* the counter the instance was constructed with
InitialCounter == DefaultTo(arg.counter, HOTP_defaults.counter)

\* caller p calls hotp.generate(): the counter is read and incremented, the
\* message is built and the call suspends in the platform's hash
GenerateCall(p) ==
  /\ pc[p] = "idle"
  /\ Len(genLog) < MaxCalls
  /\ LET g == HOTP_prototype_generate(hotp, Undefined)
     IN /\ hotp' = g.self
        /\ pend' = [pend EXCEPT ![p] = [counter |-> g.counter, explicit |-> FALSE,
                                        index |-> Len(genLog) + 1]]
        /\ genLog' = Append(genLog, [counter |-> g.counter, token |-> Undefined])
  /\ pc' = [pc EXCEPT ![p] = "awaitHash"]
  /\ overlap' = (overlap \/ \E q \in Callers : q # p /\ pc[q] = "awaitHash"
                                               /\ ~pend[q].explicit)
  /\ UNCHANGED <<digestOf, secretObj, last, arg>>

\* caller p calls hotp.generate({counter: 0})
GenerateExplicitCall(p) ==
  /\ pc[p] = "idle"
  /\ LET g == HOTP_prototype_generate(hotp, Some(0))
     IN /\ hotp' = g.self
        /\ pend' = [pend EXCEPT ![p] = [counter |-> g.counter, explicit |-> TRUE,
                                        index |-> 0]]
  /\ pc' = [pc EXCEPT ![p] = "awaitHash"]
  /\ UNCHANGED <<digestOf, genLog, overlap, secretObj, last, arg>>

\* the hash of caller p's call completes and the call returns its token
HashDone(p) ==
  /\ pc[p] = "awaitHash"
  /\ LET out == HOTP_generate(hotp.secret, Some(hotp.algorithm), Some(hotp.digits),
                              Some(pend[p].counter))
     IN /\ last' = [op |-> "hotp.generate", explicit |-> pend[p].explicit,
                    counter |-> pend[p].counter, out |-> out]
        /\ genLog' = IF pend[p].explicit THEN genLog
                     ELSE [genLog EXCEPT ![pend[p].index].token = Some(out.token)]
  /\ pc' = [pc EXCEPT ![p] = "idle"]
  /\ pend' = [pend EXCEPT ![p] = NoCall]
  /\ UNCHANGED <<digestOf, hotp, overlap, secretObj, arg>>

\* the tokens a caller presents: the one the last generate call returned,
\* and one of a wrong length
PresentedTokens ==
  (IF last.op = "hotp.generate" /\ last.out.err = "none" THEN {last.out.token} ELSE {})
    \cup {Repeat("0", hotp.digits + 1)}

\* hotp.validate({token, counter, window}); `fresh` tells that the token is
\* the one the last generate() returned and that no generate() call was made
\* since
InstanceValidate ==
  \E token \in PresentedTokens,
     cw \in {<<Undefined, Undefined>>, <<Some(0), Undefined>>, <<Some(0), Some(0)>>} :
    LET counter == cw[1]
        window == cw[2]
    IN
    /\ last' = [op |-> "hotp.validate", token |-> token, counter |-> counter,
                window |-> window,
                fresh |-> /\ last.op = "hotp.generate"
                          /\ ~last.explicit
                          /\ token = last.out.token
                          /\ hotp.counter = last.counter + 1,
                out |-> HOTP_prototype_validate(hotp, token, counter, window)]
    /\ UNCHANGED <<digestOf, instVars, arg>>

\* the static HOTP.generate and HOTP.validate with the instance's secret
StaticCall ==
  /\ \/ last' = [op |-> "HOTP.generate",
                 out |-> HOTP_generate(hotp.secret, Undefined, Undefined, Undefined)]
     \/ \E token \in PresentedTokens :
          last' = [op |-> "HOTP.validate", token |-> token,
                   out |-> HOTP_validate(token, hotp.secret, Undefined, Some(hotp.digits),
                                         Undefined, Undefined)]
  /\ UNCHANGED <<digestOf, instVars, arg>>

\* hotp.toString() (URI.stringify): reads the fields and the secret's base32
\* view, which the first read pins in the Secret
InstanceToString ==
  /\ LET view == Secret_base32(secretObj)
     IN /\ secretObj' = view.self
        /\ last' = [op |-> "hotp.toString",
                    out |-> [err |-> "none",
                             uri |-> HOTP_prototype_toString(hotp, view.value)]]
  /\ UNCHANGED <<digestOf, hotp, pc, pend, genLog, overlap, arg>>

Next ==
  \/ \E p \in Callers : GenerateCall(p)
  \/ \E p \in Callers : GenerateExplicitCall(p)
  \/ \E p \in Callers : HashDone(p)
  \/ InstanceValidate
  \/ StaticCall
  \/ InstanceToString

Spec == Init /\ [][Next]_vars

-----------------------------------------------------------------------------
(* Properties of the instance (under Spec) *)

\* the token the static HOTP.generate returns for counter c with the
\* instance's secret, algorithm and digits
StaticToken(c) ==
  HOTP_generate(hotp.secret, Some(hotp.algorithm), Some(hotp.digits), Some(c)).token

\* C6: after n generate() calls without a counter argument the counter is
\* the initial counter plus n, and the k-th call uses, and returns the
\* static HOTP.generate token of, the initial counter plus k - 1.
C6_PostIncrement ==
  /\ hotp.counter = InitialCounter + Len(genLog)
  /\ \A k \in 1..Len(genLog) :
       /\ genLog[k].counter = InitialCounter + k - 1
       /\ genLog[k].token # Undefined =>
            genLog[k].token = Some(StaticToken(InitialCounter + k - 1))

\* two generate() calls have returned on an instance constructed with
\* counter 1
C6_Witness ==
  /\ InitialCounter = 1
  /\ Len(genLog) = 2
  /\ genLog[1].token # Undefined
  /\ genLog[2].token # Undefined
  /\ hotp.counter = 3

\* C7: a step changes a field of the instance only when it is a generate()
\* call without a counter argument, and then it adds 1 to the counter and
\* changes no other field; validate (with or without a counter),
\* generate({counter}), toString and the static operations change none.
C7_CounterFrame ==
  [][/\ hotp' # hotp =>
          /\ \E p \in Callers : GenerateCall(p)
          /\ hotp' = [hotp EXCEPT !.counter = @ + 1]
     /\ hotp' # hotp =>
          ~(\/ InstanceValidate
            \/ StaticCall
            \/ InstanceToString
            \/ \E p \in Callers : GenerateExplicitCall(p)
            \/ \E p \in Callers : HashDone(p))]_vars

\* the instance has validated a token with an explicit counter after its
\* own counter had advanced, and the counter is where generate() left it
C7_Witness ==
  /\ last.op = "hotp.validate"
  /\ last.counter = Some(0)
  /\ Len(genLog) = 2
  /\ hotp.counter = InitialCounter + 2
  /\ secretObj.base32 # Undefined

\* both generate() calls of the behaviour have returned
BothReturned ==
  /\ Len(genLog) >= 2
  /\ \A p \in Callers : pc[p] = "idle"

\* C8 as stated: two overlapping generate() calls race on the counter, so
\* that they use the same counter value or the counter ends advanced by
\* less than 2.
C8_Original ==
  (overlap /\ BothReturned) =>
    \/ \E j, k \in 1..Len(genLog) : j # k /\ genLog[j].counter = genLog[k].counter
    \/ hotp.counter < InitialCounter + 2

\* C8, amended: overlapping generate() calls do not race.  The counter is
\* read and incremented in one step when a call is made, before the call
\* suspends in the hash: calls that overlap use different counter values,
\* consecutive in call order, and the counter ends advanced by one per call.
C8_NoRace ==
  overlap =>
    /\ \A j, k \in 1..Len(genLog) : j < k => genLog[k].counter = genLog[j].counter + (k - j)
    /\ hotp.counter = InitialCounter + Len(genLog)

\* two calls overlapped and both returned, the second one first
C8_Witness ==
  /\ overlap
  /\ BothReturned
  /\ last.op = "hotp.generate"
  /\ ~last.explicit
  /\ last.counter = genLog[1].counter
  /\ genLog[2].counter = genLog[1].counter + 1

\* C9: the token that generate() has just returned is accepted by
\* validate({token}) with the default counter and the default window,
\* although the counter has moved past the token's; the delta is -1 unless
\* the counter itself or the next one generates the same token.
C9_GenerateThenValidate ==
  (/\ last.op = "hotp.validate"
   /\ last.fresh
   /\ last.counter = Undefined
   /\ last.window = Undefined) =>
    /\ last.out.err = "none"
    /\ last.out.delta # Null
    /\ last.out.delta[1] \in {0 - 1, 0, 1}
    /\ (StaticToken(hotp.counter) # last.token /\ StaticToken(hotp.counter + 1) # last.token)
         => last.out.delta = Some(0 - 1)

\* the token of the counter just used was accepted with delta -1
C9_Witness ==
  /\ last.op = "hotp.validate"
  /\ last.fresh
  /\ last.counter = Undefined
  /\ last.window = Undefined
  /\ last.out.delta = Some(0 - 1)

-----------------------------------------------------------------------------
(* The HMAC composition of hmacDigest over SHA-1 (FIPS 180-4), the digest   *)
(* the platform returns for "SHA-1".  A 32-bit word is a pair <<hi, lo>> of *)
(* 16-bit halves.                                                           *)

RECURSIVE BitAnd(_, _)
BitAnd(a, b) ==
  IF a = 0 \/ b = 0 THEN 0
  ELSE ((a % 2) * (b % 2)) + (2 * BitAnd(a \div 2, b \div 2))

Xor32(x, y) == <<BitXor(x[1], y[1]), BitXor(x[2], y[2])>>
And32(x, y) == <<BitAnd(x[1], y[1]), BitAnd(x[2], y[2])>>
Or32(x, y) == <<BitOr(x[1], y[1]), BitOr(x[2], y[2])>>
Not32(x) == <<65535 - x[1], 65535 - x[2]>>

Add32(x, y) ==
  LET lo == x[2] + y[2]
      hi == x[1] + y[1] + (lo \div 65536)
  IN <<hi % 65536, lo % 65536>>

\* rotate left by n, 1 <= n <= 15
RotlSmall(x, n) ==
  <<((x[1] * Pow2(n)) % 65536) + (x[2] \div Pow2(16 - n)),
    ((x[2] * Pow2(n)) % 65536) + (x[1] \div Pow2(16 - n))>>

\* rotate left by n, 1 <= n <= 31, n # 16
Rotl32(x, n) == IF n < 16 THEN RotlSmall(x, n) ELSE RotlSmall(<<x[2], x[1]>>, n - 16)

\* the padded message: 0x80, zeros up to 56 mod 64, the bit length on 8 bytes
sha1Pad(message) ==
  LET len == Len(message)
      zeros == (55 - len) % 64
      bitLen == 8 * len
  IN message \o <<128>> \o [i \in 1..zeros |-> 0]
       \o <<0, 0, 0, 0, 0, bitLen \div 65536, (bitLen \div 256) % 256, bitLen % 256>>

\* the 32-bit big-endian word at byte offset k (from 0)
WordAt(bytes, k) ==
  <<(bytes[k + 1] * 256) + bytes[k + 2], (bytes[k + 3] * 256) + bytes[k + 4]>>

\* the message schedule of the block at byte offset k: 80 words
RECURSIVE sha1Schedule(_)
sha1Schedule(w) ==
  IF Len(w) = 80 THEN w
  ELSE LET t == Len(w) + 1
       IN sha1Schedule(Append(w,
            Rotl32(Xor32(Xor32(w[t - 3], w[t - 8]), Xor32(w[t - 14], w[t - 16])), 1)))

sha1F(t, b, c, d) ==
  IF t < 20 THEN Or32(And32(b, c), And32(Not32(b), d))
  ELSE IF t < 40 THEN Xor32(Xor32(b, c), d)
  ELSE IF t < 60 THEN Or32(Or32(And32(b, c), And32(b, d)), And32(c, d))
  ELSE Xor32(Xor32(b, c), d)

sha1K(t) ==
  IF t < 20 THEN <<23170, 31129>>
  ELSE IF t < 40 THEN <<28377, 60321>>
  ELSE IF t < 60 THEN <<36635, 48348>>
  ELSE <<51810, 49622>>

\* rounds t..79 on the working variables v = <<a, b, c, d, e>> (reading
\* Len(v) makes each round's result a value before the next round starts)
RECURSIVE sha1Rounds(_, _, _)
sha1Rounds(t, v, w) ==
  IF t = 80 \/ Len(v) # 5 THEN v
  ELSE LET temp == Add32(Add32(Add32(Rotl32(v[1], 5), sha1F(t, v[2], v[3], v[4])),
                               Add32(v[5], sha1K(t))), w[t + 1])
       IN sha1Rounds(t + 1, <<temp, v[1], Rotl32(v[2], 30), v[3], v[4]>>, w)

\* the hash value after the blocks from byte offset k on
RECURSIVE sha1Blocks(_, _, _)
sha1Blocks(bytes, k, h) ==
  IF k >= Len(bytes) THEN h
  ELSE LET w == sha1Schedule([i \in 1..16 |-> WordAt(bytes, k + (4 * (i - 1)))])
           v == sha1Rounds(0, h, w)
       IN sha1Blocks(bytes, k + 64, [i \in 1..5 |-> Add32(h[i], v[i])])

sha1InitialHash ==
  << <<26437, 8961>>, <<61389, 43913>>, <<39098, 56574>>, <<4146, 21622>>,
     <<50130, 57840>> >>

\* sha1(message): the 20 bytes of the SHA-1 digest
sha1(message) ==
  LET h == sha1Blocks(sha1Pad(message), 0, sha1InitialHash)
  IN [i \in 1..20 |->
        LET half == h[((i - 1) \div 4) + 1][(((i - 1) % 4) \div 2) + 1]
        IN IF (i % 2) = 1 THEN half \div 256 ELSE half % 256]

\* blockSize of hmacDigest
hmacBlockSize(algorithm) == IF toLowerCase(algorithm) = "sha512" THEN 128 ELSE 64

\* the key as hmacDigest uses it: hashed when longer than a block, then
\* zero-filled to the block size
hmacKey(algorithm, key) ==
  LET blockSize == hmacBlockSize(algorithm)
      k == IF Len(key) > blockSize THEN sha1(key) ELSE key
  IN IF Len(k) < blockSize THEN k \o [i \in 1..(blockSize - Len(k)) |-> 0] ELSE k

\* innerPadding ++ message
hmacInnerMessage(algorithm, key, message) ==
  LET k == hmacKey(algorithm, key)
  IN [i \in 1..Len(k) |-> BitXor(k[i], 54)] \o message

\* (mutant) the outer padding built with the inner constant 0x36
hmacOuterMessage_innerConstant(algorithm, key, innerHash) ==
  LET k == hmacKey(algorithm, key)
  IN [i \in 1..Len(k) |-> BitXor(k[i], 54)] \o innerHash

\* outerPadding ++ innerHash
hmacOuterMessage(algorithm, key, innerHash) ==
  LET k == hmacKey(algorithm, key)
  IN [i \in 1..Len(k) |-> BitXor(k[i], 92)] \o innerHash

\* the seed of a digest: what the truncation reads of it
SeedOf(digest) ==
  LET off == digest[Len(digest)] % 16
  IN [off |-> off, hi |-> digest[Len(digest)] \div 16,
      quad |-> SubSeq(digest, off + 1, off + 4)]

-----------------------------------------------------------------------------
(* HOTP.generate over HMAC-SHA-1, one step per hash the call awaits *)

\* ASCII "12345678901234567890"
VectorSecret ==
  <<49, 50, 51, 52, 53, 54, 55, 56, 57, 48, 49, 50, 51, 52, 53, 54, 55, 56, 57, 48>>

VectorCounters == 0..9
VectorDigits == {6, 7, 8}

InitVector ==
  /\ arg \in [fn : {"vector"}, algorithm : {"SHA1", "sha1"}, digits : VectorDigits,
              counter : VectorCounters]
  /\ digestOf = [m \in {} |-> SeedA]
  /\ hotp = IdleHotp
  /\ pc = "call"
  /\ pend = <<>>
  /\ genLog = <<>>
  /\ overlap = FALSE
  /\ secretObj = Secret_constructor(VectorSecret)
  /\ last = NoOp

\* hmacDigest up to `await hashFunc(innerMessage)`
HashInner ==
  /\ arg.fn = "vector"
  /\ pc = "call"
  /\ pend' = sha1(hmacInnerMessage(arg.algorithm, secretObj.bytes, uintDecode(arg.counter)))
  /\ pc' = "inner"
  /\ UNCHANGED <<digestOf, hotp, genLog, overlap, secretObj, last, arg>>

\* hmacDigest up to `return await hashFunc(outerMessage)`
HashOuter ==
  /\ arg.fn = "vector"
  /\ pc = "inner"
  /\ digestOf' = [m \in {uintDecode(arg.counter)} |->
                    SeedOf(sha1(hmacOuterMessage(arg.algorithm, secretObj.bytes, pend)))]
  /\ pc' = "outer"
  /\ UNCHANGED <<hotp, pend, genLog, overlap, secretObj, last, arg>>

\* HOTP.generate from the digest on
VectorReturn ==
  /\ arg.fn = "vector"
  /\ pc = "outer"
  /\ last' = [op |-> "HOTP.generate",
              out |-> HOTP_generate(secretObj.bytes, Some(arg.algorithm),
                                    Some(arg.digits), Some(arg.counter))]
  /\ pc' = "done"
  /\ UNCHANGED <<digestOf, hotp, pend, genLog, overlap, secretObj, arg>>

NextVector == HashInner \/ HashOuter \/ VectorReturn

SpecVector == InitVector /\ [][NextVector]_vars

\* C11: with the secret "12345678901234567890", SHA1 and 6 digits,
\* HOTP.generate returns "755224" for counter 0, "287082" for counter 1 and
\* "520489" for counter 9.
C11_Rfc4226Vectors ==
  (pc = "done" /\ arg.digits = 6) =>
    /\ last.out.err = "none"
    /\ arg.counter = 0 => last.out.token = <<"7", "5", "5", "2", "2", "4">>
    /\ arg.counter = 1 => last.out.token = <<"2", "8", "7", "0", "8", "2">>
    /\ arg.counter = 9 => last.out.token = <<"5", "2", "0", "4", "8", "9">>

C11_Witness ==
  /\ pc = "done"
  /\ arg.digits = 6
  /\ arg.counter = 9
  /\ last.out.token = <<"5", "2", "0", "4", "8", "9">>

-----------------------------------------------------------------------------
(* The TOTP wrapper: counter, remaining, generate and validate *)

MaxPeriod == 2          \* explicit periods 1..MaxPeriod seconds
MaxTimestamp == 2001    \* timestamps 0..MaxTimestamp milliseconds

\* (mutant) zero at a step boundary
TOTP_remaining_zeroAtBoundary(period, timestamp) ==
  LET step == DefaultTo(period, TOTP_defaults.period) * 1000
  IN (step - (timestamp % step)) % step

\* TOTP.remaining({period, timestamp}) for timestamp >= 0
TOTP_remaining(period, timestamp) ==
  LET step == DefaultTo(period, TOTP_defaults.period) * 1000
  IN step - (timestamp % step)

\* static TOTP.generate({secret, algorithm, digits, period, timestamp})
TOTP_generate(secret, algorithm, digits, period, timestamp) ==
  HOTP_generate(secret, algorithm, digits,
                Some(TOTP_counter(Some(DefaultTo(period, TOTP_defaults.period)), timestamp)))

\* timestamps around the steps of the default period
DefaultPeriodTimestamps == {29999, 30000, 59000, 59999, 60000, 89999}
TotpTimestamps == (0..MaxTimestamp) \cup DefaultPeriodTimestamps
TotpPeriods == {Undefined} \cup {Some(p) : p \in 1..MaxPeriod}

\* a few timestamps at and next to step boundaries, for validation
TotpValidateTimestamps == {0, 999, 1000, 1999, 2000} \cup DefaultPeriodTimestamps

\* the counters a TOTP call of the model can reach, with a margin for windows
TotpCounters == (0 - 3)..(((MaxTimestamp + 89999) \div 1000) + 3)

\* the digest of counter c: counters next to each other give different
\* tokens at every number of digits
TotpSeed(c) == [off |-> 0, hi |-> 0, quad |-> <<0, 0, 0, c + 3>>]

TotpDigests ==
  [m \in {uintDecode(c) : c \in TotpCounters} |->
     TotpSeed(CHOOSE c \in TotpCounters : uintDecode(c) = m)]

InitTotp ==
  /\ \/ arg \in [fn : {"timing"}, period : TotpPeriods, timestamp : TotpTimestamps,
                 step : {0, 1, 999, 1000}]
     \/ arg \in [fn : {"generate"}, period : TotpPeriods, timestamp : TotpTimestamps,
                 algorithm : {Undefined, Some("SHA512")}, digits : {Undefined, Some(8)}]
     \/ arg \in [fn : {"validateAt"}, period : TotpPeriods,
                 timestamp : TotpValidateTimestamps, algorithm : {Undefined},
                 digits : {Undefined}, window : {Undefined, Some(0), Some(2)},
                 shift : (0 - 2)..2]
  /\ digestOf = TotpDigests
  /\ hotp = IdleHotp
  /\ pc = <<>>
  /\ pend = <<>>
  /\ genLog = <<>>
  /\ overlap = FALSE
  /\ secretObj = NewSecret
  /\ last = NoOp

\* TOTP.counter and TOTP.remaining at one instant, and TOTP.counter at the
\* instants `remaining`, `remaining - 1` and `step` milliseconds later
ApplyTotpTiming ==
  /\ arg.fn = "timing"
  /\ last = NoOp
  /\ LET r == TOTP_remaining(arg.period, arg.timestamp)
     IN last' = [op |-> "TOTP.timing",
                 out |-> [counter |-> TOTP_counter(arg.period, arg.timestamp),
                          remaining |-> r,
                          atNext |-> TOTP_counter(arg.period, arg.timestamp + r),
                          beforeNext |-> TOTP_counter(arg.period, (arg.timestamp + r) - 1),
                          later |-> TOTP_counter(arg.period, arg.timestamp + arg.step)]]
  /\ UNCHANGED <<digestOf, instVars, arg>>

ApplyTotpGenerate ==
  /\ arg.fn = "generate"
  /\ last = NoOp
  /\ last' = [op |-> "TOTP.generate",
              out |-> TOTP_generate(SecretBytes, arg.algorithm, arg.digits, arg.period,
                                    arg.timestamp)]
  /\ UNCHANGED <<digestOf, instVars, arg>>

\* the step a timestamp lies in, by its defining inequalities
StepOf(period, timestamp) ==
  CHOOSE k \in 0..(timestamp \div 1000) :
    /\ k * (1000 * period) <= timestamp
    /\ timestamp < (k + 1) * (1000 * period)

\* the token presented to validateAt: generated `shift` steps away
TotpToken ==
  HOTP_generate(SecretBytes, arg.algorithm, arg.digits,
                Some(StepOf(DefaultTo(arg.period, TOTP_defaults.period), arg.timestamp)
                     + arg.shift)).token

\* TOTP.validate with an explicit or a default period
ApplyTotpValidateAt ==
  /\ arg.fn = "validateAt"
  /\ last = NoOp
  /\ last' = [op |-> "TOTP.validate",
              out |-> TOTP_validate(TotpToken, SecretBytes, arg.algorithm, arg.digits,
                                    arg.period, arg.timestamp, arg.window)]
  /\ UNCHANGED <<digestOf, instVars, arg>>

NextTotp == ApplyTotpTiming \/ ApplyTotpGenerate \/ ApplyTotpValidateAt

SpecTotp == InitTotp /\ [][NextTotp]_vars

\* C12: TOTP.generate returns what HOTP.generate returns for the counter
\* floor(timestamp / (1000 * period)), and TOTP.validate what HOTP.validate
\* returns for that counter; timestamp 59000 with period 30 uses counter 1.
C12_TotpDelegates ==
  LET period == DefaultTo(arg.period, TOTP_defaults.period)
      k == StepOf(period, arg.timestamp)
  IN /\ last.op = "TOTP.generate" =>
          /\ last.out = HOTP_generate(SecretBytes, arg.algorithm, arg.digits, Some(k))
          /\ (arg.timestamp = 59000 /\ period = 30) =>
                last.out = HOTP_generate(SecretBytes, arg.algorithm, arg.digits, Some(1))
     /\ last.op = "TOTP.validate" =>
          last.out = HOTP_validate(TotpToken, SecretBytes, arg.algorithm, arg.digits,
                                   Some(k), arg.window)

\* the example of the claim, with the token of counter 1 (digest value 4)
C12_Witness ==
  /\ last.op = "TOTP.generate"
  /\ arg.timestamp = 59000
  /\ arg.period = Undefined
  /\ arg.digits = Undefined
  /\ last.out.token = <<"0", "0", "0", "0", "0", "4">>

\* a validation one whole period late: delta -1
C12_WitnessValidate ==
  /\ last.op = "TOTP.validate"
  /\ arg.timestamp = 59000
  /\ arg.shift = 0 - 1
  /\ last.out.delta = Some(0 - 1)

\* C13: TOTP.remaining is the time to the next step: 1 <= remaining <=
\* period * 1000, the counter is one more `remaining` milliseconds later and
\* still the same one millisecond before that; the counter never decreases
\* as the timestamp grows.
C13_Remaining ==
  last.op = "TOTP.timing" =>
    LET period == DefaultTo(arg.period, TOTP_defaults.period)
    IN /\ 1 <= last.out.remaining
       /\ last.out.remaining <= period * 1000
       /\ last.out.atNext = last.out.counter + 1
       /\ last.out.beforeNext = last.out.counter
       /\ last.out.later >= last.out.counter
       /\ last.out.counter = StepOf(period, arg.timestamp)

\* at a step boundary the whole period remains
C13_Witness ==
  /\ last.op = "TOTP.timing"
  /\ arg.period = Some(2)
  /\ arg.timestamp = 2000
  /\ last.out.remaining = 2000
  /\ last.out.counter = 1
  /\ last.out.atNext = 2

-----------------------------------------------------------------------------
(* The base32 decoder and the hexadecimal view *)

MaxBytes == 5     \* byte sequences of length 0..MaxBytes
MaxChars == 4     \* base32 input strings of length 0..MaxChars

LowerLetters ==
  <<"a", "b", "c", "d", "e", "f", "g", "h", "i", "j", "k", "l", "m", "n", "o", "p",
    "q", "r", "s", "t", "u", "v", "w", "x", "y", "z">>

\* String.prototype.toUpperCase, one character at a time
upperChar(ch) ==
  IF \E k \in 1..26 : LowerLetters[k] = ch
  THEN ALPHABET[CHOOSE k \in 1..26 : LowerLetters[k] = ch]
  ELSE ch

\* String.prototype.toLowerCase, one character at a time
lowerChar(ch) ==
  IF \E k \in 1..26 : ALPHABET[k] = ch
  THEN LowerLetters[CHOOSE k \in 1..26 : ALPHABET[k] = ch]
  ELSE ch

\* str.replace(/ /g, "")
RECURSIVE removeSpaces(_)
removeSpaces(str) ==
  IF str = <<>> THEN <<>>
  ELSE (IF str[1] = " " THEN <<>> ELSE <<str[1]>>) \o removeSpaces(Tail(str))

\* `while (str[end - 1] === "=") --end`
RECURSIVE stripPadding(_)
stripPadding(str) ==
  IF str # <<>> /\ str[Len(str)] = "=" THEN stripPadding(SubSeq(str, 1, Len(str) - 1))
  ELSE str

\* (mutant) the input is not uppercased
base32Normalize_keepCase(str) == stripPadding(removeSpaces(str))

\* the first four lines of base32Decode: spaces out, upper case, trailing
\* "=" off
base32Normalize(str) ==
  LET s == removeSpaces(str)
  IN stripPadding([i \in 1..Len(s) |-> upperChar(s[i])])

\* ALPHABET.indexOf(ch), from 0; -1 when absent
indexOf(ch) ==
  IF \E k \in 1..32 : ALPHABET[k] = ch
  THEN (CHOOSE k \in 1..32 : ALPHABET[k] = ch) - 1
  ELSE 0 - 1

\* the `for` loop of base32Decode from character i on, on the state
\* [err, ch, bits, value, arr].  Of the 32-bit `value` only the low
\* bits + 8 (< 13) bits are read, so it is kept modulo 2^16; storing into the
\* Uint8Array keeps the low byte.
RECURSIVE base32DecodeLoop(_, _, _)
base32DecodeLoop(str, i, st) ==
  IF i > Len(str) THEN st
  ELSE LET idx == indexOf(str[i])
       IN IF idx = 0 - 1
          THEN [st EXCEPT !.err = "TypeError", !.ch = str[i]]
          ELSE LET value == ((st.value * 32) + idx) % 65536
                   bits == st.bits + 5
               IN base32DecodeLoop(str, i + 1,
                    IF bits >= 8
                    THEN [err |-> st.err, ch |-> st.ch, bits |-> bits - 8, value |-> value,
                          arr |-> Append(st.arr, (value \div Pow2(bits - 8)) % 256)]
                    ELSE [err |-> st.err, ch |-> st.ch, bits |-> bits, value |-> value,
                          arr |-> st.arr])

\* base32Decode(str): [err, ch, bytes]; the array is allocated with
\* ((str.length * 5) / 8) | 0 elements, and the loop fills all of them
base32Decode(str) ==
  LET s == base32Normalize(str)
      st == base32DecodeLoop(s, 1, [err |-> "none", ch |-> "", bits |-> 0, value |-> 0,
                                    arr |-> <<>>])
  IN IF st.err # "none" THEN [err |-> st.err, ch |-> st.ch, bytes |-> <<>>]
     ELSE [err |-> "none", ch |-> "",
           bytes |-> [i \in 1..((Len(s) * 5) \div 8) |->
                        IF i <= Len(st.arr) THEN st.arr[i] ELSE 0]]

HexDigits ==
  <<"0", "1", "2", "3", "4", "5", "6", "7", "8", "9", "a", "b", "c", "d", "e", "f">>

\* Number.prototype.toString(16) of a non-negative integer
RECURSIVE toString16(_)
toString16(n) ==
  IF n < 16 THEN <<HexDigits[n + 1]>>
  ELSE toString16(n \div 16) \o <<HexDigits[(n % 16) + 1]>>

\* HEX_LUT[i] = i.toString(16).padStart(2, "0"), 0 <= i <= 255
HEX_LUT(i) == padStart(toString16(i), 2)

\* bytesToHex: hex[2i] = HEX_LUT[byte >>> 4], hex[2i + 1] = HEX_LUT[byte & 0x0f],
\* and hex.join("")
RECURSIVE bytesToHex(_)
bytesToHex(bytes) ==
  IF bytes = <<>> THEN <<>>
  ELSE HEX_LUT(bytes[1] \div 16) \o HEX_LUT(bytes[1] % 16) \o bytesToHex(Tail(bytes))

\* the getter `hex`: as `base32`, with bytesToHex
Secret_hex(self) ==
  IF self.hex # Undefined
  THEN [self |-> self, value |-> self.hex[1], computed |-> FALSE]
  ELSE LET value == bytesToHex(self.bytes)
       IN [self |-> [self EXCEPT !.hex = Some(value)], value |-> value,
           computed |-> TRUE]

\* Secret.fromBase32(base32Str): [err, ch, secret]
Secret_fromBase32(base32Str) ==
  LET d == base32Decode(base32Str)
  IN IF d.err # "none" THEN [err |-> d.err, ch |-> d.ch, secret |-> Null]
     ELSE [err |-> "none", ch |-> "", secret |-> Some(Secret_constructor(d.bytes))]

-----------------------------------------------------------------------------
(* The codec functions applied to byte sequences and strings *)

SeqsUpTo(S, n) == UNION {[1..k -> S] : k \in 0..n}

ByteSamples == {0, 90, 165, 255}
DecodeChars == {"A", "b", "7", "=", " ", "1"}

InitCodec ==
  /\ \/ arg \in [fn : {"roundTrip", "hex"}, bytes : SeqsUpTo(ByteSamples, MaxBytes)]
     \/ arg \in [fn : {"decode"}, str : SeqsUpTo(DecodeChars, MaxChars)]
  /\ digestOf = [m \in {} |-> SeedA]
  /\ hotp = IdleHotp
  /\ pc = <<>>
  /\ pend = <<>>
  /\ genLog = <<>>
  /\ overlap = FALSE
  /\ secretObj = NewSecret
  /\ last = NoOp

\* base32Decode(base32Encode(bytes))
ApplyRoundTrip ==
  /\ arg.fn = "roundTrip"
  /\ last = NoOp
  /\ LET encoded == base32Encode(arg.bytes)
     IN last' = [op |-> "roundTrip", encoded |-> encoded, out |-> base32Decode(encoded)]
  /\ UNCHANGED <<digestOf, instVars, arg>>

\* Secret.fromBase32(str)
ApplyDecode ==
  /\ arg.fn = "decode"
  /\ last = NoOp
  /\ last' = [op |-> "fromBase32", out |-> Secret_fromBase32(arg.str)]
  /\ UNCHANGED <<digestOf, instVars, arg>>

\* new Secret({buffer: bytes}).hex
ApplyHex ==
  /\ arg.fn = "hex"
  /\ last = NoOp
  /\ last' = [op |-> "hex", out |-> Secret_hex(Secret_constructor(arg.bytes)).value]
  /\ UNCHANGED <<digestOf, instVars, arg>>

NextCodec == ApplyRoundTrip \/ ApplyDecode \/ ApplyHex

SpecCodec == InitCodec /\ [][NextCodec]_vars

AlphabetSet == {ALPHABET[k] : k \in 1..32}

\* the five bits of a base32 symbol, most significant first
SymbolBits(ch) ==
  LET v == CHOOSE k \in 0..31 : ALPHABET[k + 1] = ch
  IN <<(v \div 16) % 2, (v \div 8) % 2, (v \div 4) % 2, (v \div 2) % 2, v % 2>>

\* the bit string a sequence of base32 symbols stands for
RECURSIVE BitString(_)
BitString(str) ==
  IF str = <<>> THEN <<>> ELSE SymbolBits(str[1]) \o BitString(Tail(str))

\* the j-th group of eight bits, as a number
OctetAt(bits, j) ==
  LET b == SubSeq(bits, (8 * (j - 1)) + 1, 8 * j)
  IN (128 * b[1]) + (64 * b[2]) + (32 * b[3]) + (16 * b[4]) + (8 * b[5]) + (4 * b[6])
       + (2 * b[7]) + b[8]

\* C14: base32Decode(base32Encode(b)) = b for every byte sequence b, and
\* base32Encode(b) consists of characters of A-Z2-7 only (no "=").
C14_Base32RoundTrip ==
  last.op = "roundTrip" =>
    /\ last.out.err = "none"
    /\ last.out.bytes = arg.bytes
    /\ \A i \in 1..Len(last.encoded) : last.encoded[i] \in AlphabetSet

\* one byte needs a partial second symbol: 255 is "74"
C14_Witness ==
  /\ last.op = "roundTrip"
  /\ arg.bytes = <<255>>
  /\ last.encoded = <<"7", "4">>
  /\ last.out.bytes = <<255>>

\* the input without its spaces, in upper case, without its trailing "="
NormalForm(str) ==
  LET s == SelectSeq(str, LAMBDA c : c # " ")
      u == [i \in 1..Len(s) |-> upperChar(s[i])]
      end == CHOOSE k \in 0..Len(u) :
               /\ k = 0 \/ u[k] # "="
               /\ \A i \in (k + 1)..Len(u) : u[i] = "="
  IN SubSeq(u, 1, end)

\* C15: base32Decode works on the input with spaces removed, uppercased and
\* trailing "=" removed; it fails (TypeError, invalid character) exactly when
\* that string has a symbol outside A-Z2-7, and otherwise returns
\* floor(n * 5 / 8) bytes, n its length: the leading octets of its bit string.
C15_DecodeNormalizes ==
  last.op = "fromBase32" =>
    LET n == NormalForm(arg.str)
    IN /\ last.out.err = "TypeError" <=> \E i \in 1..Len(n) : n[i] \notin AlphabetSet
       /\ last.out.err \in {"none", "TypeError"}
       /\ last.out.err = "TypeError" => last.out.secret = Null
       /\ last.out.err = "none" =>
            LET bytes == last.out.secret[1].bytes
            IN /\ Len(bytes) = (Len(n) * 5) \div 8
               /\ \A j \in 1..Len(bytes) : bytes[j] = OctetAt(BitString(n), j)

\* lower case, a space and padding at once: "b 7=" decodes as "B7"
C15_Witness ==
  /\ last.op = "fromBase32"
  /\ arg.str = <<"b", " ", "7", "=">>
  /\ last.out.err = "none"
  /\ last.out.secret[1].bytes = <<15>>

\* C16: the hex view of a Secret with bytes b has length 2 * len(b), and its
\* characters 2i and 2i + 1 (from 0) are the high and the low hexadecimal
\* digit, in lower case, of byte b[i].
C16_HexView ==
  last.op = "hex" =>
    /\ Len(last.out) = 2 * Len(arg.bytes)
    /\ \A i \in 1..Len(arg.bytes) :
         /\ last.out[(2 * i) - 1] = HexDigits[(arg.bytes[i] \div 16) + 1]
         /\ last.out[2 * i] = HexDigits[(arg.bytes[i] % 16) + 1]

-----------------------------------------------------------------------------
(* One Secret object: its construction, the reads of its views, attempts   *)
(* to assign to its properties, and a library operation that reads it      *)

MaxSecretLen == 2   \* explicit and random buffers of 0..MaxSecretLen bytes
MaxOps == 3         \* operations on the object per behaviour

\* randomBytes(size): any `size` bytes; the 20 bytes of the default size are
\* taken all equal
randomBytes(size) ==
  IF size <= MaxSecretLen THEN [1..size -> ByteSamples]
  ELSE {[i \in 1..size |-> b] : b \in ByteSamples}

\* the ways to construct a Secret
SecretArgs ==
  [how : {"buffer"}, buffer : SeqsUpTo(ByteSamples, MaxSecretLen)]
    \cup [how : {"fromBase32"}, str : SeqsUpTo({"A", "b", "7", "=", "1"}, 3)]
    \cup [how : {"random"}, size : {Undefined} \cup {Some(n) : n \in 0..MaxSecretLen},
          fill : ByteSamples]

\* the Secrets a construction can return (none when it throws)
SecretsOf(a) ==
  CASE a.how = "buffer" -> {Secret_constructor(a.buffer)}
    [] a.how = "fromBase32" ->
         LET r == Secret_fromBase32(a.str)
         IN IF r.err = "none" THEN {r.secret[1]} ELSE {}
    [] a.how = "random" ->
         {Secret_constructor(b) :
            b \in {x \in randomBytes(DefaultTo(a.size, 20)) :
                     Len(x) = 0 \/ x[1] = a.fill}}

\* pend records the bytes at construction and how often each view was
\* computed; genLog counts the operations
InitSecret ==
  /\ arg \in SecretArgs
  /\ secretObj \in SecretsOf(arg)
  /\ pend = [bytes |-> secretObj.bytes, base32Computed |-> 0, hexComputed |-> 0]
  /\ genLog = 0
  /\ digestOf = [m \in {} |-> SeedA]
  /\ hotp = [IdleHotp EXCEPT !.secret = secretObj.bytes]
  /\ pc = <<>>
  /\ overlap = FALSE
  /\ last = NoOp

\* secret.base32
ReadBase32 ==
  /\ arg.how \in {"buffer", "fromBase32", "random"}
  /\ genLog < MaxOps
  /\ LET r == Secret_base32(secretObj)
     IN /\ secretObj' = r.self
        /\ pend' = [pend EXCEPT !.base32Computed = @ + (IF r.computed THEN 1 ELSE 0)]
        /\ last' = [op |-> "read base32", out |-> r.value]
  /\ genLog' = genLog + 1
  /\ UNCHANGED <<digestOf, hotp, pc, overlap, arg>>

\* secret.hex
ReadHex ==
  /\ arg.how \in {"buffer", "fromBase32", "random"}
  /\ genLog < MaxOps
  /\ LET r == Secret_hex(secretObj)
     IN /\ secretObj' = r.self
        /\ pend' = [pend EXCEPT !.hexComputed = @ + (IF r.computed THEN 1 ELSE 0)]
        /\ last' = [op |-> "read hex", out |-> r.value]
  /\ genLog' = genLog + 1
  /\ UNCHANGED <<digestOf, hotp, pc, overlap, arg>>

\* secret.bytes = v, secret.base32 = v or secret.hex = v: `bytes` and a
\* pinned view are own properties that are not writable, a view not yet read
\* is an accessor without a setter; the assignment throws and changes nothing
AssignProperty ==
  /\ arg.how \in {"buffer", "fromBase32", "random"}
  /\ genLog < MaxOps
  /\ \E name \in {"bytes", "base32", "hex"} :
       last' = [op |-> "assign", name |-> name, out |-> "TypeError"]
  /\ genLog' = genLog + 1
  /\ UNCHANGED <<digestOf, hotp, pc, overlap, secretObj, pend, arg>>

\* hotp.toString() of an instance that holds the secret: reads secret.base32
SecretToString ==
  /\ arg.how \in {"buffer", "fromBase32", "random"}
  /\ genLog < MaxOps
  /\ LET r == Secret_base32(secretObj)
     IN /\ secretObj' = r.self
        /\ pend' = [pend EXCEPT !.base32Computed = @ + (IF r.computed THEN 1 ELSE 0)]
        /\ last' = [op |-> "toString", out |-> HOTP_prototype_toString(hotp, r.value)]
  /\ genLog' = genLog + 1
  /\ UNCHANGED <<digestOf, hotp, pc, overlap, arg>>

NextSecret == ReadBase32 \/ ReadHex \/ AssignProperty \/ SecretToString

SpecSecret == InitSecret /\ [][NextSecret]_vars

\* C17: each view is a single-assignment cache: empty until the first read
\* and filled by it, computed at most once, never assigned again, and every
\* read returns the encoding of the secret's bytes.
C17_SingleAssignment ==
  /\ [](/\ pend.base32Computed = (IF secretObj.base32 = Undefined THEN 0 ELSE 1)
        /\ pend.hexComputed = (IF secretObj.hex = Undefined THEN 0 ELSE 1)
        /\ last.op = "read base32" =>
             /\ last.out = base32Encode(secretObj.bytes)
             /\ secretObj.base32 = Some(last.out)
        /\ last.op = "read hex" =>
             /\ last.out = bytesToHex(secretObj.bytes)
             /\ secretObj.hex = Some(last.out))
  /\ [][/\ secretObj.base32 # Undefined => secretObj'.base32 = secretObj.base32
        /\ secretObj.hex # Undefined => secretObj'.hex = secretObj.hex
        /\ secretObj'.bytes = secretObj.bytes]_vars

\* both views read, the base32 view a second time
C17_Witness ==
  /\ genLog = 3
  /\ last.op = "read base32"
  /\ secretObj.bytes = <<255>>
  /\ last.out = <<"7", "4">>
  /\ secretObj.hex # Undefined
  /\ pend.base32Computed = 1

\* C18: every Secret that can be constructed owns a byte sequence of length
\* > 0 that never changes after construction.
C18_SecretBytes ==
  /\ Len(secretObj.bytes) > 0
  /\ secretObj.bytes = pend.bytes

-----------------------------------------------------------------------------
(* The key-URI parser: the regular expressions and string functions it uses *)

IsHexDigit(ch) ==
  \/ IsDigitChar(ch)
  \/ ch \in {"a", "b", "c", "d", "e", "f", "A", "B", "C", "D", "E", "F"}

\* the characters whose escapes the model uses
EscapedChars == {" ", ":", "@", "=", "&", "?", "/", "+", "%"}

\* the character an escape %XY stands for
UnescapedChar(x, y) ==
  CHOOSE ch \in EscapedChars :
    PercentCode(ch) = <<"%", upperChar(x), upperChar(y)>>

\* decodeURIComponent(str): [err, value]; URIError when a "%" is not followed
\* by two hexadecimal digits
RECURSIVE decodeURIComponent(_)
decodeURIComponent(str) ==
  IF str = <<>> THEN [err |-> "none", value |-> <<>>]
  ELSE IF str[1] # "%"
  THEN LET rest == decodeURIComponent(Tail(str))
       IN IF rest.err # "none" THEN rest
          ELSE [err |-> "none", value |-> <<str[1]>> \o rest.value]
  ELSE IF Len(str) < 3 \/ ~IsHexDigit(str[2]) \/ ~IsHexDigit(str[3])
  THEN [err |-> "URIError", value |-> <<>>]
  ELSE LET rest == decodeURIComponent(SubSeq(str, 4, Len(str)))
       IN IF rest.err # "none" THEN rest
          ELSE [err |-> "none", value |-> <<UnescapedChar(str[2], str[3])>> \o rest.value]

\* the positions of ch in str
PositionsOf(str, ch) == {i \in 1..Len(str) : str[i] = ch}

\* str.split(sep) for a one-character separator
RECURSIVE split(_, _)
split(str, sep) ==
  IF PositionsOf(str, sep) = {} THEN <<str>>
  ELSE LET i == CHOOSE k \in PositionsOf(str, sep) : \A j \in PositionsOf(str, sep) : k <= j
       IN <<SubSeq(str, 1, i - 1)>> \o split(SubSeq(str, i + 1, Len(str)), sep)

\* cur.split(/=(.*)/, 2): the text before the first "=" and the text after it
splitKeyValue(cur) ==
  LET i == CHOOSE k \in PositionsOf(cur, "=") : \A j \in PositionsOf(cur, "=") : k <= j
  IN <<SubSeq(cur, 1, i - 1), SubSeq(cur, i + 1, Len(cur))>>

\* String.prototype.trim
RECURSIVE trim(_)
trim(str) ==
  IF str # <<>> /\ str[1] = " " THEN trim(Tail(str))
  ELSE IF str # <<>> /\ str[Len(str)] = " " THEN trim(SubSeq(str, 1, Len(str) - 1))
  ELSE str

toLowerCaseChars(str) == [i \in 1..Len(str) |-> lowerChar(str[i])]

\* [A-Z0-9.~_-] under the i flag
IsParamKeyChar(ch) == IsAlphaNum(ch) \/ ch \in {".", "~", "_", "-"}

\* [A-Z0-9.~_-]+=[^?&]* on one "&"-separated piece that has no "?"
IsParamPiece(cur) ==
  /\ PositionsOf(cur, "=") # {}
  /\ LET key == splitKeyValue(cur)[1]
     IN /\ key # <<>>
        /\ \A i \in 1..Len(key) : IsParamKeyChar(key[i])

\* uri.match(OTPURI_REGEX): [matched, uriType, rawLabel, rawParams].  The
\* parameter block cannot hold a "?", so it starts after the last one.
OTPURI_REGEX_match(uri) ==
  LET noMatch == [matched |-> FALSE, uriType |-> <<>>, rawLabel |-> <<>>,
                  rawParams |-> <<>>]
      head == toLowerCaseChars(SubSeq(uri, 1, 15))
      qs == PositionsOf(uri, "?")
  IN IF Len(uri) < 15 \/ qs = {} THEN noMatch
     ELSE LET q == CHOOSE k \in qs : \A j \in qs : j <= k
              rawParams == SubSeq(uri, q + 1, Len(uri))
          IN IF /\ SubSeq(head, 1, 10) = <<"o", "t", "p", "a", "u", "t", "h", ":", "/", "/">>
                /\ head[11] \in {"h", "t"}
                /\ SubSeq(head, 12, 15) = <<"o", "t", "p", "/">>
                /\ q > 16
                /\ \A i \in 1..Len(split(rawParams, "&")) :
                     IsParamPiece(split(rawParams, "&")[i])
             THEN [matched |-> TRUE, uriType |-> SubSeq(uri, 11, 14),
                   rawLabel |-> SubSeq(uri, 16, q - 1), rawParams |-> rawParams]
             ELSE noMatch

\* SECRET_REGEX.test(str): /^[2-7A-Z]+=*$/i
SECRET_REGEX_test_allowEmpty(str) ==
  \E n \in 0..Len(str) :
    /\ \A i \in 1..n : upperChar(str[i]) \in {ALPHABET[k] : k \in 1..32}
    /\ \A i \in (n + 1)..Len(str) : str[i] = "="

SECRET_REGEX_test(str) ==
  \E n \in 1..Len(str) :
    /\ \A i \in 1..n : upperChar(str[i]) \in {ALPHABET[k] : k \in 1..32}
    /\ \A i \in (n + 1)..Len(str) : str[i] = "="

\* INTEGER_REGEX.test(str): /^[+-]?\d+$/
INTEGER_REGEX_test(str) ==
  LET digits == IF str # <<>> /\ str[1] \in {"+", "-"} THEN Tail(str) ELSE str
  IN digits # <<>> /\ \A i \in 1..Len(digits) : IsDigitChar(digits[i])

\* POSITIVE_INTEGER_REGEX.test(str): /^\+?[1-9]\d*$/
POSITIVE_INTEGER_REGEX_test(str) ==
  LET digits == IF str # <<>> /\ str[1] = "+" THEN Tail(str) ELSE str
  IN /\ digits # <<>>
     /\ digits[1] # "0"
     /\ \A i \in 1..Len(digits) : IsDigitChar(digits[i])

\* parseInt(str, 10) of a string that passed one of the integer tests
parseInt(str) ==
  IF str[1] = "-" THEN 0 - DecimalValue(Tail(str))
  ELSE IF str[1] = "+" THEN DecimalValue(Tail(str))
  ELSE DecimalValue(str)

-----------------------------------------------------------------------------
(* The TOTP instance, and URI.parse / URI.stringify *)

\* the algorithm names that occur as strings in the model
AlgorithmNames ==
  {"SHA1", "sha1", "SHA-1", "SHA224", "SHA256", "SHA384", "SHA512", "SHA3-224",
   "SHA3-256", "SHA3-384", "SHA3-512", "MD5"}

\* the name spelled by a string
NameOf(chars) == CHOOSE n \in AlgorithmNames : Chars(n) = chars

IsAlgorithmName(chars) == \E n \in AlgorithmNames : Chars(n) = chars

\* str.replace(/-/, ""): the first hyphen removed
removeFirstHyphen(str) ==
  IF PositionsOf(str, "-") = {} THEN str
  ELSE LET i == CHOOSE k \in PositionsOf(str, "-") : \A j \in PositionsOf(str, "-") : k <= j
       IN SubSeq(str, 1, i - 1) \o SubSeq(str, i + 1, Len(str))

\* canonicalizeAlgorithm(algorithm) on the spelling of the name: [err, algorithm]
canonicalizeAlgorithm(algorithm) ==
  LET upperAlgorithm == [i \in 1..Len(algorithm) |-> upperChar(algorithm[i])]
      unknown == [err |-> "TypeError", algorithm |-> ""]
  IN IF Len(upperAlgorithm) >= 5 /\ SubSeq(upperAlgorithm, 1, 5) = <<"S", "H", "A", "3", "-">>
     THEN IF \E n \in {"SHA3-224", "SHA3-256", "SHA3-384", "SHA3-512"} :
                Chars(n) = upperAlgorithm
          THEN [err |-> "none", algorithm |-> NameOf(upperAlgorithm)]
          ELSE unknown
     ELSE LET simpleAlgorithm == removeFirstHyphen(upperAlgorithm)
          IN IF \E n \in {"SHA1", "SHA224", "SHA256", "SHA384", "SHA512"} :
                   Chars(n) = simpleAlgorithm
             THEN [err |-> "none", algorithm |-> NameOf(simpleAlgorithm)]
             ELSE unknown

\* new TOTP({issuer, label, issuerInLabel, secret, algorithm, digits, period}):
\* [err, otp]; the algorithm is given by its spelling
TOTP_constructor(issuer, label, issuerInLabel, secret, algorithm, digits, period) ==
  LET c == canonicalizeAlgorithm(DefaultTo(algorithm, Chars(TOTP_defaults.algorithm)))
  IN IF c.err # "none" THEN [err |-> "algorithm", otp |-> Null]
     ELSE [err |-> "none",
           otp |-> Some([issuer |-> DefaultTo(issuer, TOTP_defaults.issuer),
                         label |-> DefaultTo(label, TOTP_defaults.label),
                         issuerInLabel |-> DefaultTo(issuerInLabel,
                                                     TOTP_defaults.issuerInLabel),
                         secret |-> secret,
                         algorithm |-> c.algorithm,
                         digits |-> DefaultTo(digits, TOTP_defaults.digits),
                         period |-> DefaultTo(period, TOTP_defaults.period)])]

\* (mutant) the issuer parameter written first
TOTP_prototype_toString_issuerFirst(self, base32) ==
  LET label == IF Len(self.issuer) > 0 /\ self.issuerInLabel
               THEN encodeURIComponent(self.issuer) \o <<":">>
                    \o encodeURIComponent(self.label)
               ELSE encodeURIComponent(self.label)
      params == (IF Len(self.issuer) > 0
                 THEN << <<Chars("issuer"), self.issuer>> >> ELSE <<>>)
                \o << <<Chars("secret"), base32>>,
                      <<Chars("algorithm"), Chars(self.algorithm)>>,
                      <<Chars("digits"), String(self.digits)>>,
                      <<Chars("period"), String(self.period)>> >>
  IN Chars("otpauth://totp/") \o label \o <<"?">> \o URLSearchParams_toString(params)

\* totp.toString() on the instance `self`, reading the secret's base32 view
TOTP_prototype_toString(self, base32) ==
  LET label == IF Len(self.issuer) > 0 /\ self.issuerInLabel
               THEN encodeURIComponent(self.issuer) \o <<":">>
                    \o encodeURIComponent(self.label)
               ELSE encodeURIComponent(self.label)
      params == << <<Chars("secret"), base32>>,
                   <<Chars("algorithm"), Chars(self.algorithm)>>,
                   <<Chars("digits"), String(self.digits)>>,
                   <<Chars("period"), String(self.period)>> >>
                \o (IF Len(self.issuer) > 0
                    THEN << <<Chars("issuer"), self.issuer>> >> ELSE <<>>)
  IN Chars("otpauth://totp/") \o label \o <<"?">> \o URLSearchParams_toString(params)

\* URI.stringify(otp) of an instance of the given type
URI_stringify(type, otp) ==
  IF type = "hotp" THEN HOTP_prototype_toString(otp, base32Encode(otp.secret))
  ELSE TOTP_prototype_toString(otp, base32Encode(otp.secret))

\* the reduce over rawParams.split("&"): [err, params], params a function
\* from the lower-cased decoded keys to the decoded values, later pieces
\* overriding earlier ones
RECURSIVE uriParams(_, _)
uriParams(pieces, acc) ==
  IF pieces = <<>> THEN [err |-> "none", params |-> acc]
  ELSE LET kv == splitKeyValue(pieces[1])
           key == decodeURIComponent(kv[1])
           value == decodeURIComponent(kv[2])
       IN IF key.err # "none" \/ value.err # "none"
          THEN [err |-> "URIMalformed", params |-> acc]
          ELSE LET k == toLowerCaseChars(key.value)
               IN uriParams(Tail(pieces),
                            [x \in DOMAIN acc \cup {k} |->
                               IF x = k THEN value.value ELSE acc[x]])

\* uriParams.<name>: undefined or the value
Param(params, name) ==
  IF Chars(name) \in DOMAIN params THEN Some(params[Chars(name)]) ELSE Undefined

\* the result of a parse that throws
ParseThrows(error) == [err |-> error, type |-> "", otp |-> Null]

\* the label part of parse: [issuer, label, issuerInLabel] of the config, from
\* the decoded label and uriParams.issuer
labelConfig(decodedLabel, issuerParam) ==
  LET labelParts == split(decodedLabel, ":")
      fromParam == IF issuerParam # Undefined /\ Len(issuerParam[1]) > 0
                   THEN issuerParam ELSE Undefined
  IN IF Len(labelParts) = 2
     THEN [issuer |-> IF fromParam = Undefined \/ Len(fromParam[1]) = 0
                      THEN Some(trim(labelParts[1])) ELSE fromParam,
           label |-> Some(trim(labelParts[2])),
           issuerInLabel |-> Undefined]
     ELSE [issuer |-> fromParam,
           label |-> Some(trim(labelParts[1])),
           issuerInLabel |-> IF fromParam # Undefined /\ Len(fromParam[1]) > 0
                             THEN Some(FALSE) ELSE Undefined]

\* new OTPClass(config) at the end of parse
OTPClass_new(type, lc, secret, algorithm, digits, counter, period) ==
  IF type = "hotp"
  THEN IF algorithm # Undefined /\ ~IsAlgorithmName(algorithm[1])
       THEN ParseThrows("unmodelled")
       ELSE [err |-> "none", type |-> "hotp",
             otp |-> Some(HOTP_constructor(
                        lc.issuer, lc.label, lc.issuerInLabel, secret,
                        IF algorithm = Undefined THEN Undefined
                        ELSE Some(NameOf(algorithm[1])),
                        digits, counter))]
  ELSE LET t == TOTP_constructor(lc.issuer, lc.label, lc.issuerInLabel, secret,
                                 algorithm, digits, period)
       IN [err |-> t.err, type |-> IF t.err = "none" THEN "totp" ELSE "",
           otp |-> t.otp]

\* URI.parse(uri): [err, type, otp]; err names the exception thrown ("none"
\* when an instance is returned)
URI_parse(uri) ==
  LET m == OTPURI_REGEX_match(uri)
  IN IF ~m.matched THEN ParseThrows("InvalidURIFormat")
     ELSE
     LET reduced == uriParams(split(m.rawParams, "&"), [x \in {} |-> <<>>])
         ps == reduced.params
         type == IF toLowerCaseChars(m.uriType) = <<"h", "o", "t", "p">> THEN "hotp"
                 ELSE IF toLowerCaseChars(m.uriType) = <<"t", "o", "t", "p">> THEN "totp"
                 ELSE "unknown"
         counter == Param(ps, "counter")
         period == Param(ps, "period")
         secret == Param(ps, "secret")
         algorithm == Param(ps, "algorithm")
         digits == Param(ps, "digits")
         decodedLabel == decodeURIComponent(m.rawLabel)
     IN IF reduced.err # "none" THEN ParseThrows("URIMalformed")
        ELSE IF type = "hotp" /\ ~(counter # Undefined /\ INTEGER_REGEX_test(counter[1]))
        THEN ParseThrows("counter")
        ELSE IF type = "totp" /\ period # Undefined
                /\ ~POSITIVE_INTEGER_REGEX_test(period[1])
        THEN ParseThrows("period")
        ELSE IF type = "unknown" THEN ParseThrows("type")
        ELSE IF decodedLabel.err # "none" THEN ParseThrows("URIMalformed")
        ELSE IF ~(secret # Undefined /\ SECRET_REGEX_test(secret[1]))
        THEN ParseThrows("secret")
        ELSE IF digits # Undefined /\ ~POSITIVE_INTEGER_REGEX_test(digits[1])
        THEN ParseThrows("digits")
        ELSE OTPClass_new(type,
                          labelConfig(decodedLabel.value, Param(ps, "issuer")),
                          base32Decode(secret[1]).bytes,
                          algorithm,
                          IF digits = Undefined THEN Undefined
                          ELSE Some(parseInt(digits[1])),
                          IF type = "hotp" THEN Some(parseInt(counter[1])) ELSE Undefined,
                          IF type = "totp" /\ period # Undefined
                          THEN Some(parseInt(period[1])) ELSE Undefined)

-----------------------------------------------------------------------------
(* URI.stringify and URI.parse applied to configs and to URI texts *)

\* the configs handed to the constructors
UriIssuers == {Undefined, Some(<<"A">>), Some(<<"A", " ", "b">>)}
UriLabels ==
  {Undefined, Some(<<"x">>), Some(<<"x", "@", "y">>), Some(<<"a", ":", "b">>),
   Some(<<" ", "x">>), Some(<<>>)}
UriAlgorithms == {Undefined, Some("sha1"), Some("SHA512")}
UriDigits == {Undefined, Some(8)}
UriSteps == {Undefined, Some(1), Some(45)}
UriSecrets == {<<72>>, <<72, 101, 108, 108, 111>>}

ConfigArgs ==
  [fn : {"roundTrip"}, type : {"hotp", "totp"}, issuer : UriIssuers,
   label : UriLabels, issuerInLabel : {Undefined, Some(TRUE), Some(FALSE)},
   algorithm : UriAlgorithms, digits : UriDigits, step : UriSteps,
   secret : UriSecrets]

\* new HOTP(config) or new TOTP(config) for an argument of ConfigArgs
ConfigOf(a) ==
  IF a.type = "hotp"
  THEN HOTP_constructor(a.issuer, a.label, a.issuerInLabel, a.secret, a.algorithm,
                        a.digits, a.step)
  ELSE TOTP_constructor(a.issuer, a.label, a.issuerInLabel, a.secret,
                        IF a.algorithm = Undefined THEN Undefined
                        ELSE Some(Chars(a.algorithm[1])),
                        a.digits, a.step).otp[1]

\* the URI texts handed to parse, by their parts; an absent parameter is
\* Undefined
UriSchemes ==
  {Chars("otpauth://hotp/"), Chars("otpauth://totp/"),
   [i \in 1..15 |-> upperChar(Chars("otpauth://hotp/")[i])],
   [Chars("otpauth://hotp/") EXCEPT ![11] = "x"]}
RawLabels == {<<"X">>, <<"%">>}
SecretTexts ==
  {Undefined, Some(<<>>), Some(<<"J", "B", "S", "W", "Y", "3", "D", "P">>),
   Some(<<"j", "b", "=", "=">>), Some(<<"J", "B", "=", "A">>), Some(<<"1">>),
   Some(<<"%">>)}
CounterTexts ==
  {Undefined, Some(<<"1">>), Some(<<"-", "1">>), Some(<<"+", "5">>),
   Some(<<"1", ".", "5">>), Some(<<>>), Some(<<"x">>)}
PeriodTexts == {Undefined, Some(<<"3", "0">>), Some(<<"0">>)}
DigitsTexts == {Undefined, Some(<<"8">>), Some(<<"0">>)}
AlgorithmTexts == {Undefined, Some(Chars("MD5"))}

TextArgs ==
  [fn : {"parse"}, scheme : UriSchemes, label : RawLabels, secret : SecretTexts,
   counter : CounterTexts, period : PeriodTexts, digits : DigitsTexts,
   algorithm : AlgorithmTexts]

\* key=value of a present parameter; the URI with the upper-case scheme has
\* upper-case keys too
ParamText(a, name, value) ==
  IF value = Undefined THEN <<>>
  ELSE << (IF a.scheme[1] = "O" THEN [i \in 1..Len(Chars(name)) |-> upperChar(Chars(name)[i])]
           ELSE Chars(name)) \o <<"=">> \o value[1] >>

RECURSIVE joinAmp(_)
joinAmp(pieces) ==
  IF pieces = <<>> THEN <<>>
  ELSE pieces[1] \o (IF Len(pieces) > 1 THEN <<"&">> ELSE <<>>) \o joinAmp(Tail(pieces))

\* the URI text of an argument of TextArgs
UriText(a) ==
  LET pieces == ParamText(a, "secret", a.secret) \o ParamText(a, "counter", a.counter)
                \o ParamText(a, "period", a.period) \o ParamText(a, "digits", a.digits)
                \o ParamText(a, "algorithm", a.algorithm)
  IN a.scheme \o a.label
     \o (IF pieces = <<>> THEN <<>> ELSE <<"?">> \o joinAmp(pieces))

\* the URI texts that vary the label and the issuer parameter of an otherwise
\* valid URI
LabelTexts ==
  {<<"x">>, <<"I", ":", "x">>, <<" ", "I", " ", ":", " ", "x", " ">>,
   <<"a", ":", "b", ":", "c">>, <<":", "x">>, <<"I", ":">>,
   <<"I", "%", "3", "A", "x">>, <<" ", "x">>}
IssuerTexts == {Undefined, Some(<<"Z">>), Some(<<>>)}

LabelArgs ==
  [fn : {"label"}, scheme : {Chars("otpauth://hotp/"), Chars("otpauth://totp/")},
   label : LabelTexts, issuer : IssuerTexts]

LabelUriText(a) ==
  a.scheme \o a.label
  \o <<"?", "s", "e", "c", "r", "e", "t", "=", "J", "B", "S", "W", "Y", "3", "D", "P",
       "&", "c", "o", "u", "n", "t", "e", "r", "=", "1">>
  \o (IF a.issuer = Undefined THEN <<>>
      ELSE <<"&", "i", "s", "s", "u", "e", "r", "=">> \o a.issuer[1])

InitUri ==
  /\ arg \in ConfigArgs \cup TextArgs \cup LabelArgs
  /\ digestOf = [m \in {} |-> SeedA]
  /\ hotp = IdleHotp
  /\ pc = IF arg.fn = "roundTrip" THEN "config" ELSE "uri"
  /\ pend = IF arg.fn = "roundTrip" THEN [cfg |-> Some(ConfigOf(arg)), uri |-> <<>>]
            ELSE IF arg.fn = "parse" THEN [cfg |-> Null, uri |-> UriText(arg)]
            ELSE [cfg |-> Null, uri |-> LabelUriText(arg)]
  /\ genLog = <<>>
  /\ overlap = FALSE
  /\ secretObj = NewSecret
  /\ last = NoOp

\* uri = URI.stringify(cfg)
UriStringify ==
  /\ pc = "config"
  /\ pend' = [pend EXCEPT !.uri = URI_stringify(arg.type, pend.cfg[1])]
  /\ pc' = "uri"
  /\ UNCHANGED <<digestOf, hotp, genLog, overlap, secretObj, last, arg>>

\* URI.parse(uri)
UriParse ==
  /\ pc = "uri"
  /\ last' = [op |-> "parse", out |-> URI_parse(pend.uri)]
  /\ pc' = "done"
  /\ UNCHANGED <<digestOf, hotp, pend, genLog, overlap, secretObj, arg>>

NextUri == UriStringify \/ UriParse

SpecUri == InitUri /\ [][NextUri]_vars

\* C19: for every constructed HOTP or TOTP config, parse(stringify(cfg))
\* succeeds and returns a config of the same type with the same issuer, label,
\* algorithm, digits and counter (HOTP) or period (TOTP), whose secret has the
\* same base32 view.
C19_UriRoundTrip ==
  (arg.fn = "roundTrip" /\ last # NoOp) =>
    LET cfg == pend.cfg[1]
        out == last.out
    IN /\ out.err = "none"
       /\ out.type = arg.type
       /\ out.otp[1].issuer = cfg.issuer
       /\ out.otp[1].label = cfg.label
       /\ out.otp[1].algorithm = cfg.algorithm
       /\ out.otp[1].digits = cfg.digits
       /\ arg.type = "hotp" => out.otp[1].counter = cfg.counter
       /\ arg.type = "totp" => out.otp[1].period = cfg.period
       /\ base32Encode(out.otp[1].secret) = base32Encode(cfg.secret)

\* the secret parameter is absent, empty, or not base32 characters followed by
\* optional "="
SecretUnusable(text) ==
  \/ text = Undefined
  \/ text[1] = <<>>
  \/ ~ \E k \in 1..Len(text[1]) :
         /\ \A i \in 1..k : upperChar(text[1][i]) \in AlphabetSet
         /\ \A i \in (k + 1)..Len(text[1]) : text[1][i] = "="

\* the counter parameter is absent or not an optionally signed integer
CounterUnusable(text) ==
  \/ text = Undefined
  \/ LET unsigned == IF text[1] # <<>> /\ text[1][1] \in {"+", "-"}
                     THEN Tail(text[1]) ELSE text[1]
     IN unsigned = <<>> \/ \E i \in 1..Len(unsigned) : ~IsDigitChar(unsigned[i])

\* the period parameter is present and not a positive integer
PeriodUnusable(text) ==
  /\ text # Undefined
  /\ LET unsigned == IF text[1] # <<>> /\ text[1][1] = "+" THEN Tail(text[1]) ELSE text[1]
     IN \/ unsigned = <<>>
        \/ unsigned[1] = "0"
        \/ \E i \in 1..Len(unsigned) : ~IsDigitChar(unsigned[i])

IsHotpText(a) == a.scheme[11] \in {"h", "H"}

\* the URI text has type hotp or totp and a parameter block, and every
\* percent sign in it starts an escape
WellFormedText(a) ==
  /\ a.scheme[11] \in {"h", "H", "t", "T"}
  /\ \E f \in {"secret", "counter", "period", "digits", "algorithm"} : a[f] # Undefined
  /\ \A f \in {"secret", "counter", "period", "digits", "algorithm"} :
       a[f] # Undefined => "%" \notin {a[f][1][i] : i \in 1..Len(a[f][1])}

\* C20 as stated: parse fails with the secret error whenever the secret
\* parameter is absent, empty or not base32 with optional trailing "=", and
\* with the counter error whenever the type is hotp and the counter is absent
\* or not an optionally signed integer; no config is returned.
C20_Original ==
  (arg.fn = "parse" /\ last # NoOp /\ WellFormedText(arg) /\ arg.label # <<"%">>) =>
    /\ SecretUnusable(arg.secret) => (last.out.err = "secret" /\ last.out.otp = Null)
    /\ (IsHotpText(arg) /\ CounterUnusable(arg.counter)) =>
         (last.out.err = "counter" /\ last.out.otp = Null)

\* C20 (amended): for a URI of the otpauth shape whose parameters
\* percent-decode, parse fails with the counter error whenever the type is
\* hotp and the counter is absent or not an optionally signed integer,
\* whatever the secret is; it fails with the secret error whenever the secret
\* is absent, empty or not base32 with optional trailing "=", the label
\* percent-decodes, and neither the counter error (hotp) nor the period error
\* (totp with a period that is not a positive integer) comes first; a failed
\* parse returns no config.
C20_ParseErrors ==
  (arg.fn = "parse" /\ last # NoOp) =>
    /\ last.out.err # "none" => last.out.otp = Null
    /\ WellFormedText(arg) =>
         /\ (IsHotpText(arg) /\ CounterUnusable(arg.counter)) =>
              last.out.err = "counter"
         /\ (/\ SecretUnusable(arg.secret)
             /\ arg.label # <<"%">>
             /\ ~(IsHotpText(arg) /\ CounterUnusable(arg.counter))
             /\ ~(~IsHotpText(arg) /\ PeriodUnusable(arg.period))) =>
              last.out.err = "secret"

\* a hotp URI with a usable counter and an empty secret was parsed and the
\* secret error came out; a hotp URI without counter gave the counter error
C20_Witness ==
  /\ arg.fn = "parse"
  /\ last # NoOp
  /\ IsHotpText(arg)
  /\ arg.secret = Some(<<>>)
  /\ arg.counter = Some(<<"-", "1">>)
  /\ last.out.err = "secret"

C20_WitnessCounter ==
  /\ arg.fn = "parse"
  /\ last # NoOp
  /\ IsHotpText(arg)
  /\ arg.secret = Some(<<>>)
  /\ arg.counter = Undefined
  /\ last.out.err = "counter"

\* a round trip that does return the config it started from
C19_RoundTripReached ==
  /\ arg.fn = "roundTrip"
  /\ last # NoOp
  /\ arg.issuer = Some(<<"A">>)
  /\ arg.label = Some(<<"x", "@", "y">>)
  /\ C19_UriRoundTrip

-----------------------------------------------------------------------------
(* Properties of URI.parse (under SpecUri) *)

\* the URI text has a scheme, a label and a parameter block whose values
\* percent-decode
ShapedText(a) ==
  /\ a.label # <<"%">>
  /\ \E f \in {"secret", "counter", "period", "digits", "algorithm"} : a[f] # Undefined
  /\ \A f \in {"secret", "counter", "period", "digits", "algorithm"} :
       a[f] # Undefined => "%" \notin {a[f][1][i] : i \in 1..Len(a[f][1])}

\* C21: the type segment selects HOTP or TOTP case-insensitively, and a URI
\* that is otherwise well-formed but has another type segment fails with the
\* unknown-type error, not with the invalid-format error.
C21_TypeSegment ==
  (arg.fn = "parse" /\ last # NoOp /\ ShapedText(arg)) =>
    /\ last.out.err = "none" =>
         last.out.type = (IF arg.scheme[11] \in {"h", "H"} THEN "hotp" ELSE "totp")
    /\ arg.scheme[11] \notin {"h", "H", "t", "T"} => last.out.err = "type"

\* an upper-case HOTP type segment selected HOTP
C21_UpperCaseReached ==
  /\ arg.fn = "parse"
  /\ last # NoOp
  /\ arg.scheme[11] = "H"
  /\ last.out.err = "none"
  /\ last.out.type = "hotp"

\* the decoded label of a label argument, and its parts around the first colon
DecodedLabel == decodeURIComponent(arg.label).value
HasIssuerPrefix == ":" \in {DecodedLabel[i] : i \in 1..Len(DecodedLabel)}
FirstColon == CHOOSE k \in PositionsOf(DecodedLabel, ":") :
                \A j \in PositionsOf(DecodedLabel, ":") : k <= j
IssuerPart == trim(SubSeq(DecodedLabel, 1, FirstColon - 1))
AccountPart ==
  IF HasIssuerPrefix THEN trim(SubSeq(DecodedLabel, FirstColon + 1, Len(DecodedLabel)))
  ELSE trim(DecodedLabel)

\* C22: a present issuer parameter is the resulting issuer even when the
\* label carries an issuer prefix; the label's issuer is used only when the
\* parameter is absent; the resulting label is the trimmed account part; and
\* issuerInLabel is false exactly when the label has no issuer prefix and an
\* issuer parameter is present.
C22_LabelIssuer ==
  (arg.fn = "label" /\ last # NoOp) =>
    /\ last.out.err = "none"
    /\ last.out.otp[1].issuer =
         (IF arg.issuer # Undefined THEN arg.issuer[1]
          ELSE IF HasIssuerPrefix THEN IssuerPart
          ELSE <<>>)
    /\ last.out.otp[1].label = AccountPart
    /\ last.out.otp[1].issuerInLabel = ~(~HasIssuerPrefix /\ arg.issuer # Undefined)

\* the issuer parameter won over the label's issuer prefix
C22_ParameterWinsReached ==
  /\ arg.fn = "label"
  /\ last # NoOp
  /\ arg.label = <<" ", "I", " ", ":", " ", "x", " ">>
  /\ arg.issuer = Some(<<"Z">>)
  /\ last.out.otp[1].issuer = <<"Z">>
  /\ last.out.otp[1].label = <<"x">>
  /\ last.out.otp[1].issuerInLabel

-----------------------------------------------------------------------------
(* Properties of URI.stringify (under SpecUri) *)

\* the parts of the URI that stringify produced
UriQuestionMark == CHOOSE k \in PositionsOf(pend.uri, "?") : TRUE
UriRawLabel == SubSeq(pend.uri, 16, UriQuestionMark - 1)
UriPieces == split(SubSeq(pend.uri, UriQuestionMark + 1, Len(pend.uri)), "&")
UriKey(i) == splitKeyValue(UriPieces[i])[1]
UriValue(i) == splitKeyValue(UriPieces[i])[2]

-----------------------------------------------------------------------------
(* Properties of the parsed config (under SpecUri) *)

CanonicalTags ==
  {"SHA1", "SHA224", "SHA256", "SHA384", "SHA512", "SHA3-224", "SHA3-256", "SHA3-384",
   "SHA3-512"}

\* C24: for hotp and totp URIs the algorithm of a parsed config is one of the
\* canonical tags (SHA1 when the parameter is absent), and a URI whose
\* algorithm is not an accepted name makes parse fail with the
\* unsupported-algorithm error.
C24_AlgorithmCanonical ==
  (arg.fn = "parse" /\ last # NoOp) =>
    /\ last.out.err = "none" =>
         /\ last.out.otp[1].algorithm \in CanonicalTags
         /\ arg.algorithm = Undefined => last.out.otp[1].algorithm = "SHA1"
    /\ (/\ arg.algorithm = Some(Chars("MD5"))
        /\ WellFormedText(arg)
        /\ arg.label # <<"%">>
        /\ ~SecretUnusable(arg.secret)
        /\ ~(IsHotpText(arg) /\ CounterUnusable(arg.counter))
        /\ ~(~IsHotpText(arg) /\ PeriodUnusable(arg.period))
        /\ arg.digits # Some(<<"0">>)) =>
         last.out.err = "algorithm"

\* a totp URI with algorithm MD5 was refused with the algorithm error
C24_TotpRefusedReached ==
  /\ arg.fn = "parse"
  /\ last # NoOp
  /\ ~IsHotpText(arg)
  /\ arg.algorithm = Some(Chars("MD5"))
  /\ last.out.err = "algorithm"

\* C27: every parsed config has counter >= 0 (HOTP), period > 0 (TOTP) and
\* digits >= 1; a URI whose counter, period or digits value would violate
\* this is rejected.
C27_ParsedInvariants ==
  (arg.fn = "parse" /\ last # NoOp /\ last.out.err = "none") =>
    /\ last.out.otp[1].digits >= 1
    /\ last.out.type = "hotp" => last.out.otp[1].counter >= 0
    /\ last.out.type = "totp" => last.out.otp[1].period > 0

\* period 0 and digits 0 were rejected with their parameter errors
C27_RejectedReached ==
  /\ arg.fn = "parse"
  /\ last # NoOp
  /\ \/ arg.period = Some(<<"0">>) /\ last.out.err = "period"
     \/ arg.digits = Some(<<"0">>) /\ last.out.err = "digits"

-----------------------------------------------------------------------------
(* canonicalizeAlgorithm on spellings of algorithm names, and the TOTP
   instance built from them *)

\* the name with a hyphen put in front of position i
HyphenAt(str, i) == SubSeq(str, 1, i - 1) \o <<"-">> \o SubSeq(str, i, Len(str))

BaseSpellings == {Chars(n) : n \in CanonicalTags \cup {"MD5"}}

\* the base names with up to two hyphens added, in upper and in lower case
Spellings ==
  LET one == UNION {{HyphenAt(b, i) : i \in 1..(Len(b) + 1)} : b \in BaseSpellings}
      two == UNION {{HyphenAt(b, i) : i \in 1..(Len(b) + 1)} : b \in one}
      upper == BaseSpellings \cup one \cup two
  IN upper \cup {toLowerCaseChars(b) : b \in upper}

InitCanon ==
  /\ arg \in [fn : {"canonicalize"}, name : Spellings]
  /\ digestOf = [m \in {uintDecode(0)} |-> SeedA]
  /\ hotp = IdleHotp
  /\ pc = "call"
  /\ pend = <<>>
  /\ genLog = <<>>
  /\ overlap = FALSE
  /\ secretObj = NewSecret
  /\ last = NoOp

\* totp = new TOTP({secret, algorithm: name}): canonicalizeAlgorithm(name)
\* returns the tag or throws
ApplyCanonicalize ==
  /\ pc = "call"
  /\ pend' = TOTP_constructor(Undefined, Undefined, Undefined, SecretBytes,
                              Some(arg.name), Undefined, Undefined)
  /\ last' = [op |-> "canonicalize", out |-> canonicalizeAlgorithm(arg.name)]
  /\ pc' = "constructed"
  /\ UNCHANGED <<digestOf, hotp, genLog, overlap, secretObj, arg>>

\* totp.generate({timestamp: 0}) on the constructed instance
ApplyInstanceGenerate ==
  /\ pc = "constructed"
  /\ pend.err = "none"
  /\ last' = [op |-> "totp.generate",
              out |-> TOTP_generate(pend.otp[1].secret, Some(pend.otp[1].algorithm),
                                    Some(pend.otp[1].digits), Some(pend.otp[1].period), 0)]
  /\ pc' = "done"
  /\ UNCHANGED <<digestOf, hotp, pend, genLog, overlap, secretObj, arg>>

NextCanon == ApplyCanonicalize \/ ApplyInstanceGenerate

SpecCanon == InitCanon /\ [][NextCanon]_vars

\* the name in upper case with every hyphen removed
RECURSIVE StripHyphens(_)
StripHyphens(str) ==
  IF str = <<>> THEN <<>>
  ELSE (IF str[1] = "-" THEN <<>> ELSE <<upperChar(str[1])>>) \o StripHyphens(Tail(str))

UpperName(str) == [i \in 1..Len(str) |-> upperChar(str[i])]

\* the tag the name stands for, <<>> when it stands for none
TagOf(str) ==
  IF Len(str) >= 5 /\ SubSeq(UpperName(str), 1, 5) = <<"S", "H", "A", "3", "-">>
  THEN {t \in {"SHA3-224", "SHA3-256", "SHA3-384", "SHA3-512"} : Chars(t) = UpperName(str)}
  ELSE {t \in {"SHA1", "SHA224", "SHA256", "SHA384", "SHA512"} :
          Chars(t) = StripHyphens(str)}

\* C25: canonicalizeAlgorithm upper-cases the name; names starting with SHA3-
\* are accepted exactly when they are SHA3-224, SHA3-256, SHA3-384 or
\* SHA3-512; from every other name all hyphens are removed and it is accepted
\* exactly when the rest is SHA1, SHA224, SHA256, SHA384 or SHA512; an
\* accepted name gets its one tag and every other name the
\* unsupported-algorithm error.
C25_Canonicalize ==
  (arg.fn = "canonicalize" /\ pc = "constructed") =>
    IF TagOf(arg.name) = {} THEN last.out.err # "none"
    ELSE last.out.err = "none" /\ TagOf(arg.name) = {last.out.algorithm}

\* a lower-case name with one hyphen was mapped to its tag, and MD5 refused
C25_HyphenReached ==
  /\ pc = "constructed"
  /\ arg.name = <<"s", "h", "a", "-", "2", "5", "6">>
  /\ last.out = [err |-> "none", algorithm |-> "SHA256"]

\* C26: for every tag canonicalizeAlgorithm returns, and so for every TOTP
\* instance that was constructed, hmacDigest selects a hash function and
\* generate does not fail with the unsupported-algorithm error.
C26_TagsSupported ==
  (arg.fn = "canonicalize" /\ pc = "done") => last.out.err = "none"

\* the instance built from "sha-512" generated a token
C26_GeneratedReached ==
  /\ pc = "done"
  /\ arg.name = <<"s", "h", "a", "-", "5", "1", "2">>
  /\ last.out.err = "none"
  /\ Len(last.out.token) = 6

-----------------------------------------------------------------------------
(* The work of a validation (under SpecValidate) *)

\* C28: for a token of length digits, HOTP.validate passes the counters
\* counter - window, ..., counter + window to generate in ascending order and
\* completes the range: 2 * window + 1 generate calls and comparisons, each
\* comparison over all digits characters, whether or not and wherever the
\* token matches.
C28_FullScan ==
  (last.op \in ValidateOps /\ Len(TokenOf(arg)) = arg.digits) =>
    /\ last.out.err = "none"
    /\ last.out.candidates
         = [k \in 1..((2 * arg.window) + 1) |-> (arg.counter - arg.window) + (k - 1)]
    /\ last.out.compares = (2 * arg.window) + 1
    /\ last.out.inspected = ((2 * arg.window) + 1) * arg.digits

\* the token matched the first candidate of a window of three, differed from
\* the second in its first character, and all three candidates were compared
C28_Witness ==
  /\ last.op = "HOTP.validate"
  /\ arg.window = 1
  /\ arg.digits = 6
  /\ Gen(arg.counter - 1) = TokenOf(arg)
  /\ Gen(arg.counter)[1] # TokenOf(arg)[1]
  /\ Len(last.out.candidates) = 3
  /\ last.out.inspected = 18

\* C30: with reference counter >= 0 and window >= 0, every candidate counter
\* that a validation passes to generate is >= 0, and no token is accepted for
\* a counter below zero.
C30_NoNegativeCandidate ==
  (last.op \in ValidateOps /\ arg.counter >= 0 /\ arg.window >= 0) =>
    /\ \A k \in 1..Len(last.out.candidates) : last.out.candidates[k] >= 0
    /\ last.out.delta # Null => arg.counter + last.out.delta[1] >= 0

-----------------------------------------------------------------------------
(* uintDecode on counters of up to 53 bits *)

\* a number below 2^53 is held as <<hi, lo>> with value hi * WideBase + lo,
\* 0 <= lo < WideBase = 2^26 and 0 <= hi < 2^27
WideBase == 67108864

\* the loop of uintDecode on such a number: `acc & 255` takes acc modulo 2^32
\* and then its low byte, which is the low byte of lo because WideBase is a
\* multiple of 256; `acc -= arr[i]; acc /= 256` is exact below 2^53
RECURSIVE uintDecodeWideLoop(_, _, _, _)
uintDecodeWideLoop(arr, hi, lo, i) ==
  IF i < 0 \/ (hi = 0 /\ lo = 0) THEN arr
  ELSE LET b == lo % 256
       IN uintDecodeWideLoop([arr EXCEPT ![i + 1] = b],
                             hi \div 256,
                             ((hi % 256) * (WideBase \div 256)) + ((lo - b) \div 256),
                             i - 1)

\* (mutant) a variable-length encoding: the leading zero bytes dropped
uintDecodeWide_variableLength(num) ==
  LET arr == uintDecodeWideLoop(<<0, 0, 0, 0, 0, 0, 0, 0>>, num[1], num[2], 7)
      used == {k \in 1..8 : arr[k] # 0}
  IN IF used = {} THEN <<>>
     ELSE SubSeq(arr, CHOOSE k \in used : \A j \in used : k <= j, 8)

\* uintDecode(num) for num = <<hi, lo>>
uintDecodeWide(num) ==
  uintDecodeWideLoop(<<0, 0, 0, 0, 0, 0, 0, 0>>, num[1], num[2], 7)

HiSamples == {0, 1, 63, 64, 255, 256, 16383, 16384, 4194304, 134217727}
LoSamples == (0..300) \cup {65535, 65536, 16777215, 16777216, 67108863}

InitEncode ==
  /\ arg \in [fn : {"uintDecode"}, hi : HiSamples, lo : LoSamples]
  /\ digestOf = [m \in {} |-> SeedA]
  /\ hotp = IdleHotp
  /\ pc = <<>>
  /\ pend = <<>>
  /\ genLog = <<>>
  /\ overlap = FALSE
  /\ secretObj = NewSecret
  /\ last = NoOp

\* the message of hmacDigest(algorithm, secret.bytes, uintDecode(counter))
ApplyEncode ==
  /\ arg.fn = "uintDecode"
  /\ last = NoOp
  /\ last' = [op |-> "uintDecode", out |-> uintDecodeWide(<<arg.hi, arg.lo>>)]
  /\ UNCHANGED <<digestOf, instVars, arg>>

NextEncode == ApplyEncode

SpecEncode == InitEncode /\ [][NextEncode]_vars

\* C29: for every counter c with 0 <= c < 2^53 the message handed to the HMAC
\* has exactly 8 bytes and is the big-endian unsigned encoding of c: byte 7
\* is c mod 256, byte 0 the most significant, leading bytes zero.
C29_BigEndian ==
  last.op = "uintDecode" =>
    /\ Len(last.out) = 8
    /\ last.out[8] = arg.lo % 256
    /\ last.out[7] = (arg.lo \div 256) % 256
    /\ last.out[6] = (arg.lo \div 65536) % 256
    /\ last.out[5] = (arg.lo \div 16777216) + (4 * (arg.hi % 64))
    /\ last.out[4] = (arg.hi \div 64) % 256
    /\ last.out[3] = (arg.hi \div 16384) % 256
    /\ last.out[2] = arg.hi \div 4194304
    /\ last.out[1] = 0
    /\ arg.hi = 0 => uintDecode(arg.lo) = last.out

\* 2^53 - 1 was encoded as 00 1f ff ff ff ff ff ff
C29_Witness ==
  /\ last.op = "uintDecode"
  /\ arg.hi = 134217727
  /\ arg.lo = 67108863
  /\ last.out = <<0, 31, 255, 255, 255, 255, 255, 255>>

====
